---- MODULE Spec2Model ----
(***************************************************************************)
(* Tile- and source-data lifecycle core of maplibre-gl-js:                 *)
(*   - the bounded LRU caches (BoundedLRUCache, BoundedLRUTileCache),      *)
(*   - the GeoJSON source diff model (applySourceDiff, mergeSourceDiffs),  *)
(*   - the vector tile strategy (onFinishUpdate fade hold).                *)
(* Each part is a state machine of its own (CacheSpec, DiffSpec,           *)
(* FadeSpec) over the variables declared below.                            *)
(***************************************************************************)
EXTENDS Integers, Sequences, FiniteSets, TLC

VARIABLES
    \* ---- cache ----
    impl,       \* which cache class the instance is
    hasHook,    \* whether the constructor was given onRemove
    map,        \* this.map: entries in insertion order (a JS Map)
    maxEntries, \* this.maxEntries
    prevMap,    \* this.map before the last operation
    prevMax,    \* this.maxEntries before the last operation
    lastOp,     \* the last operation and its arguments
    hooked,     \* the onRemove calls made by the last operation, in order
    result,     \* how the last operation ended and what it returned
    recency,    \* the held keys, least recently touched (get hit, set) first
    prevRecency,\* recency before the last operation
    \* ---- source diff ----
    dpc,        \* position of the diff scenario
    ws,         \* the working set (Map<id, feature>) the diffs start from
    prevDiff,   \* first pending diff
    nextDiff,   \* second pending diff
    merged,     \* mergeSourceDiffs(prevDiff, nextDiff)
    promoteOpt, \* the source's promoteId option
    midWs,      \* a copy of ws after applySourceDiff(prevDiff)
    seqWs,      \* that copy after applySourceDiff(nextDiff) as well
    mergedWs,   \* another copy of ws after applySourceDiff(merged)
    \* ---- vector tile strategy ----
    tiles,      \* resident tiles: key -> tile state
    now,        \* the clock the tiles read (browser now())
    removeIds,  \* the list onFinishUpdate returned last
    prevTiles,  \* tiles before the last onFinishUpdate
    lastRetain, \* the retain map (its keys) of the last onFinishUpdate
    lastFade,   \* fadeDuration of the last onFinishUpdate
    cycle,      \* the last step of the update cycle: "open", "update" or "discarded"
    \* ---- updateable source data ----
    udata,      \* the GeoJSON value given to isUpdateableGeoJSON
    uresult,    \* what isUpdateableGeoJSON answered, "pending" before the call
    \* ---- applySourceDiff on objects ----
    heap0,      \* the working set and the objects it refers to, before the call
    heap,       \* the same after applySourceDiff(updateable, prevDiff, promoteOpt)
    \* ---- mergeSourceDiffs on the objects of its arguments ----
    prevAfter,  \* the content of the prev argument after mergeSourceDiffs returned
    mergedAgain, \* what a second mergeSourceDiffs of the same prev and next returned
    \* ---- tile queries ----
    qin,        \* the arguments of isTileRenderable or tilesIn
    qout        \* what the call returned

cacheVars == <<impl, hasHook, map, maxEntries, prevMap, prevMax, lastOp, hooked, result,
               recency, prevRecency>>
diffVars  == <<dpc, ws, prevDiff, nextDiff, merged, promoteOpt, midWs, seqWs, mergedWs>>
fadeVars  == <<tiles, now, removeIds, prevTiles, lastRetain, lastFade, cycle>>
dataVars  == <<udata, uresult, heap0, heap>>
mergeVars == <<prevAfter, mergedAgain>>
queryVars == <<qin, qout>>
vars      == <<cacheVars, diffVars, fadeVars, dataVars, mergeVars, queryVars>>

(***************************************************************************)
(* Bounds                                                                  *)
(***************************************************************************)
NumKeys == 3
NumTiles == 2
MaxCap == 3
\* entries per field of a diff, and entries of a pair of diffs together
MaxFieldLen == 1
MaxPairEntries == 2
\* resident tiles, clock readings and fade durations of the tile strategy
NumResident == 2
MaxTime == 2
MaxFade == 1
\* features of a feature collection
MaxFeatures == 2

(***************************************************************************)
(* JS Map<K, V>: a sequence of entries in insertion order                  *)
(***************************************************************************)
Keys == 1..NumKeys
\* canonical tile identifiers (zoom/x/y), the keys of the tile caches
TileKeys == 1..NumTiles
\* values of the generic cache: numbers, of which 0 is falsy
Values == {0, 1, 2}
\* values of the tile caches: Tile objects (always truthy), named by a number
TileValues == {1, 2}
\* world copies of a tile identifier
Wraps == {0, 1}
Capacities == (-1)..MaxCap

Impls == {"lru", "lru2", "lru3", "tile1", "tile"}
IsTileImpl(i) == i \in {"tile1", "tile"}

\* JS truthiness of a stored value
Truthy(v) == v # 0

Entry(k, v, w) == [key |-> k, val |-> v, wrap |-> w]

MapHas(m, k) == \E i \in 1..Len(m) : m[i].key = k
MapIndex(m, k) == CHOOSE i \in 1..Len(m) : m[i].key = k
MapGet(m, k) == m[MapIndex(m, k)]
MapDelete(m, k) == SelectSeq(m, LAMBDA e : e.key # k)
\* Map.prototype.set: an existing key keeps its position
MapSet(m, k, e) == IF MapHas(m, k) THEN [m EXCEPT ![MapIndex(m, k)] = e] ELSE Append(m, e)

\* an onRemove call with its argument
HookValue(e) == [undef |-> FALSE, val |-> e.val, wrap |-> e.wrap]
HookUndefined == [undef |-> TRUE, val |-> 0, wrap |-> 0]

RetUndefined == [kind |-> "undefined", val |-> 0, wrap |-> 0]
RetVoid == [kind |-> "void", val |-> 0, wrap |-> 0]
RetValue(e) == [kind |-> "value", val |-> e.val, wrap |-> e.wrap]
RetTypeError == [kind |-> "TypeError", val |-> 0, wrap |-> 0]
RetHang == [kind |-> "hang", val |-> 0, wrap |-> 0]

\* what an operation leaves behind
Outcome(m, mx, hs, r) == [map |-> m, max |-> mx, hooks |-> hs, ret |-> r]

\* what remove / removeOldest leave behind
Removed(m, hs) == [map |-> m, hooks |-> hs]

(***************************************************************************)
(* BoundedLRUCache<K, V> (current): get / set / setMaxSize / filter /      *)
(* removeOldest / remove / clear                                           *)
(***************************************************************************)
LRU_get(m, mx, k) ==
    IF MapHas(m, k)
    THEN LET e == MapGet(m, k)
         IN Outcome(Append(MapDelete(m, k), e), mx, <<>>, RetValue(e))
    ELSE Outcome(m, mx, <<>>, RetUndefined)

\* remove(key): "if (!value) return" - a falsy stored value is not removed
LRU_remove(m, k) ==
    IF ~MapHas(m, k) THEN Removed(m, <<>>)
    ELSE IF ~Truthy(MapGet(m, k).val) THEN Removed(m, <<>>)
    ELSE Removed(MapDelete(m, k), <<HookValue(MapGet(m, k))>>)

\* removeOldest(): on an empty map the oldest key is undefined and remove returns
LRU_removeOldest(m) ==
    IF Len(m) = 0 THEN Removed(m, <<>>) ELSE LRU_remove(m, m[1].key)

LRU_set(m, mx, k, v) ==
    LET r == IF MapHas(m, k) THEN LRU_remove(m, k)
             ELSE IF Len(m) >= mx THEN LRU_removeOldest(m)
             ELSE Removed(m, <<>>)
    IN Outcome(MapSet(r.map, k, Entry(k, v, 0)), mx, r.hooks, RetVoid)

\* the while loop of setMaxSize; an iteration that removes nothing repeats forever
RECURSIVE LRU_shrink(_, _, _)
LRU_shrink(m, n, hs) ==
    IF Len(m) > n
    THEN LET r == LRU_removeOldest(m)
         IN IF r.map = m
            THEN Outcome(m, n, hs, RetHang)
            ELSE LRU_shrink(r.map, n, hs \o r.hooks)
    ELSE Outcome(m, n, hs, RetVoid)

LRU_setMaxSize(m, n) == LRU_shrink(m, n, <<>>)

\* the for-of loop of filter over the entries, from entry i of the original map
RECURSIVE LRU_filterFrom(_, _, _, _, _)
LRU_filterFrom(orig, i, m, keep, hs) ==
    IF i > Len(orig) THEN Removed(m, hs)
    ELSE IF orig[i].val \in keep
         THEN LRU_filterFrom(orig, i + 1, m, keep, hs)
         ELSE LET r == LRU_remove(m, orig[i].key)
              IN LRU_filterFrom(orig, i + 1, r.map, keep, hs \o r.hooks)

LRU_filter(m, mx, keep) ==
    LET r == LRU_filterFrom(m, 1, m, keep, <<>>)
    IN Outcome(r.map, mx, r.hooks, RetVoid)

LRU_clear(m, mx, h) ==
    IF ~h THEN Outcome(<<>>, mx, <<>>, RetVoid)
    ELSE Outcome(<<>>, mx, [i \in 1..Len(m) |-> HookValue(m[i])], RetVoid)

(***************************************************************************)
(* BoundedLRUCache<K, V> (part_001, lines 76-129): remove has no presence  *)
(* check, setMaxSize only stores, clear calls no hook                      *)
(***************************************************************************)
LRU2_get(m, mx, k) == LRU_get(m, mx, k)

\* remove(key): deletes and calls onRemove with whatever map.get returned
LRU2_remove(m, k) ==
    IF ~MapHas(m, k) THEN Removed(m, <<HookUndefined>>)
    ELSE Removed(MapDelete(m, k), <<HookValue(MapGet(m, k))>>)

LRU2_set(m, mx, k, v) ==
    LET r == IF MapHas(m, k) THEN LRU2_remove(m, k)
             ELSE IF Len(m) >= mx
                  THEN (IF Len(m) = 0 THEN Removed(m, <<HookUndefined>>)
                        ELSE LRU2_remove(m, m[1].key))
             ELSE Removed(m, <<>>)
    IN Outcome(MapSet(r.map, k, Entry(k, v, 0)), mx, r.hooks, RetVoid)

LRU2_setMaxSize(m, n) == Outcome(m, n, <<>>, RetVoid)

RECURSIVE LRU2_filterFrom(_, _, _, _, _)
LRU2_filterFrom(orig, i, m, keep, hs) ==
    IF i > Len(orig) THEN Removed(m, hs)
    ELSE IF orig[i].val \in keep
         THEN LRU2_filterFrom(orig, i + 1, m, keep, hs)
         ELSE LET r == LRU2_remove(m, orig[i].key)
              IN LRU2_filterFrom(orig, i + 1, r.map, keep, hs \o r.hooks)

LRU2_filter(m, mx, keep) ==
    LET r == LRU2_filterFrom(m, 1, m, keep, <<>>)
    IN Outcome(r.map, mx, r.hooks, RetVoid)

LRU2_clear(m, mx) == Outcome(<<>>, mx, <<>>, RetVoid)

(***************************************************************************)
(* BoundedLRUCache<K, V> (part_001, lines 173-227): remove checks the      *)
(* value, setMaxSize only stores, clear calls no hook                      *)
(***************************************************************************)
LRU3_get(m, mx, k) == LRU_get(m, mx, k)

LRU3_remove(m, k) ==
    IF ~MapHas(m, k) THEN Removed(m, <<>>)
    ELSE IF ~Truthy(MapGet(m, k).val) THEN Removed(m, <<>>)
    ELSE Removed(MapDelete(m, k), <<HookValue(MapGet(m, k))>>)

LRU3_set(m, mx, k, v) ==
    LET r == IF MapHas(m, k) THEN LRU3_remove(m, k)
             ELSE IF Len(m) >= mx
                  THEN (IF Len(m) = 0 THEN Removed(m, <<>>)
                        ELSE LRU3_remove(m, m[1].key))
             ELSE Removed(m, <<>>)
    IN Outcome(MapSet(r.map, k, Entry(k, v, 0)), mx, r.hooks, RetVoid)

LRU3_setMaxSize(m, n) == Outcome(m, n, <<>>, RetVoid)

RECURSIVE LRU3_filterFrom(_, _, _, _, _)
LRU3_filterFrom(orig, i, m, keep, hs) ==
    IF i > Len(orig) THEN Removed(m, hs)
    ELSE IF orig[i].val \in keep
         THEN LRU3_filterFrom(orig, i + 1, m, keep, hs)
         ELSE LET r == LRU3_remove(m, orig[i].key)
              IN LRU3_filterFrom(orig, i + 1, r.map, keep, hs \o r.hooks)

LRU3_filter(m, mx, keep) ==
    LET r == LRU3_filterFrom(m, 1, m, keep, <<>>)
    IN Outcome(r.map, mx, r.hooks, RetVoid)

LRU3_clear(m, mx) == Outcome(<<>>, mx, <<>>, RetVoid)

(***************************************************************************)
(* BoundedLRUTileCache (part_001, lines 134-171): wraps the                *)
(* BoundedLRUCache of the same file (lines 173-227) under the wrapped key  *)
(***************************************************************************)
\* tileID.wrapped().key: the key of the identifier with its world copy stripped
\* the key of the identifier as given, world copy included
Tile_getKeyUnwrapped(k, w) == k + w * NumTiles

\* tileID.wrapped().key: the key of the identifier with its world copy stripped
Tile_getKey(k, w) == k

\* get: on a hit the tile's tileID is overwritten with the caller's
Tile_get(m, mx, k, w) ==
    LET o == LRU3_get(m, mx, Tile_getKey(k, w))
    IN IF o.ret.kind = "value"
       THEN LET e == Entry(Tile_getKey(k, w), o.ret.val, w)
            IN Outcome(MapSet(o.map, e.key, e), mx, <<>>, RetValue(e))
       ELSE o

Tile_set(m, mx, k, w, v) ==
    LET o == LRU3_set(m, mx, Tile_getKey(k, w), v)
    IN Outcome(MapSet(o.map, Tile_getKey(k, w), Entry(Tile_getKey(k, w), v, w)),
               mx, o.hooks, RetVoid)

Tile_remove(m, mx, k, w) ==
    LET r == LRU3_remove(m, Tile_getKey(k, w))
    IN Outcome(r.map, mx, r.hooks, RetVoid)

Tile_setMaxSize(m, n) == LRU3_setMaxSize(m, n)
Tile_filter(m, mx, keep) == LRU3_filter(m, mx, keep)
Tile_clear(m, mx) == LRU3_clear(m, mx)

(***************************************************************************)
(* BoundedLRUTileCache (part_001, lines 4-74): the stand-alone tile cache  *)
(***************************************************************************)
Tile1_getKey(k, w) == k

\* get: "tile.tileID = tileID" is executed on a miss too, where tile is undefined
Tile1_get(m, mx, k, w) ==
    LET key == Tile1_getKey(k, w)
    IN IF MapHas(m, key)
       THEN LET e == Entry(key, MapGet(m, key).val, w)
            IN Outcome(Append(MapDelete(m, key), e), mx, <<>>, RetValue(e))
       ELSE Outcome(m, mx, <<>>, RetTypeError)

Tile1_remove(m, k, w) ==
    LET key == Tile1_getKey(k, w)
    IN IF ~MapHas(m, key) THEN Removed(m, <<>>)
       ELSE IF ~Truthy(MapGet(m, key).val) THEN Removed(m, <<>>)
       ELSE Removed(MapDelete(m, key), <<HookValue(MapGet(m, key))>>)

\* set: at capacity with an empty map, "oldestTile.tileID" reads a field of undefined
Tile1_set(m, mx, k, w, v) ==
    LET key == Tile1_getKey(k, w)
    IN IF MapHas(m, key)
       THEN LET r == Tile1_remove(m, k, w)
            IN Outcome(MapSet(r.map, key, Entry(key, v, w)), mx, r.hooks, RetVoid)
       ELSE IF Len(m) >= mx
       THEN IF Len(m) = 0
            THEN Outcome(m, mx, <<>>, RetTypeError)
            ELSE LET r == Tile1_remove(m, m[1].key, m[1].wrap)
                 IN Outcome(MapSet(r.map, key, Entry(key, v, w)), mx, r.hooks, RetVoid)
       ELSE Outcome(MapSet(m, key, Entry(key, v, w)), mx, <<>>, RetVoid)

Tile1_setMaxSize(m, n) == Outcome(m, n, <<>>, RetVoid)

RECURSIVE Tile1_filterFrom(_, _, _, _, _)
Tile1_filterFrom(orig, i, m, keep, hs) ==
    IF i > Len(orig) THEN Removed(m, hs)
    ELSE IF orig[i].val \in keep
         THEN Tile1_filterFrom(orig, i + 1, m, keep, hs)
         ELSE LET r == Tile1_remove(m, orig[i].key, orig[i].wrap)
              IN Tile1_filterFrom(orig, i + 1, r.map, keep, hs \o r.hooks)

Tile1_filter(m, mx, keep) ==
    LET r == Tile1_filterFrom(m, 1, m, keep, <<>>)
    IN Outcome(r.map, mx, r.hooks, RetVoid)

Tile1_clear(m, mx) == Outcome(<<>>, mx, <<>>, RetVoid)

(***************************************************************************)
(* The cache instance: one operation per step                              *)
(***************************************************************************)
InputKeys(i) == IF IsTileImpl(i) THEN TileKeys ELSE Keys
InputValues(i) == IF IsTileImpl(i) THEN TileValues ELSE Values
InputWraps(i) == IF IsTileImpl(i) THEN Wraps ELSE {0}

Op(name, k, w, v, keep, n) ==
    [op |-> name, key |-> k, wrap |-> w, val |-> v, keep |-> keep, n |-> n]

\* the recency order of section 4.1: a get hit and a set make their key the most
\* recent one, and a key that is no longer held has no place in the order
Touch(rec, op, before, after) ==
    LET hit == \/ op.op = "set"
               \/ (op.op = "get" /\ MapHas(before, op.key))
        moved == IF hit
                 THEN Append(SelectSeq(rec, LAMBDA k : k # op.key), op.key)
                 ELSE rec
    IN SelectSeq(moved, LAMBDA k : MapHas(after, k))

\* the operation's effect on the instance; onRemove?.() calls nothing without a hook
Finish(o, op) ==
    /\ map' = o.map
    /\ maxEntries' = o.max
    /\ hooked' = IF hasHook THEN o.hooks ELSE <<>>
    /\ result' = o.ret
    /\ prevMap' = map
    /\ prevMax' = maxEntries
    /\ lastOp' = op
    /\ recency' = Touch(recency, op, map, o.map)
    /\ prevRecency' = recency
    /\ UNCHANGED <<impl, hasHook>>

Running == result.kind # "hang"

Get ==
    /\ Running
    /\ \E k \in InputKeys(impl), w \in InputWraps(impl) :
         Finish(CASE impl = "lru" -> LRU_get(map, maxEntries, k)
                  [] impl = "lru2" -> LRU2_get(map, maxEntries, k)
                  [] impl = "lru3" -> LRU3_get(map, maxEntries, k)
                  [] impl = "tile" -> Tile_get(map, maxEntries, k, w)
                  [] impl = "tile1" -> Tile1_get(map, maxEntries, k, w),
                Op("get", k, w, 0, {}, 0))

Set ==
    /\ Running
    /\ \E k \in InputKeys(impl), w \in InputWraps(impl), v \in InputValues(impl) :
         Finish(CASE impl = "lru" -> LRU_set(map, maxEntries, k, v)
                  [] impl = "lru2" -> LRU2_set(map, maxEntries, k, v)
                  [] impl = "lru3" -> LRU3_set(map, maxEntries, k, v)
                  [] impl = "tile" -> Tile_set(map, maxEntries, k, w, v)
                  [] impl = "tile1" -> Tile1_set(map, maxEntries, k, w, v),
                Op("set", k, w, v, {}, 0))

Remove ==
    /\ Running
    /\ \E k \in InputKeys(impl), w \in InputWraps(impl) :
         Finish(CASE impl = "lru" ->
                       LET r == LRU_remove(map, k)
                       IN Outcome(r.map, maxEntries, r.hooks, RetVoid)
                  [] impl = "lru2" ->
                       LET r == LRU2_remove(map, k)
                       IN Outcome(r.map, maxEntries, r.hooks, RetVoid)
                  [] impl = "lru3" ->
                       LET r == LRU3_remove(map, k)
                       IN Outcome(r.map, maxEntries, r.hooks, RetVoid)
                  [] impl = "tile" -> Tile_remove(map, maxEntries, k, w)
                  [] impl = "tile1" ->
                       LET r == Tile1_remove(map, k, w)
                       IN Outcome(r.map, maxEntries, r.hooks, RetVoid),
                Op("remove", k, w, 0, {}, 0))

SetMaxSize ==
    /\ Running
    /\ \E n \in Capacities :
         Finish(CASE impl = "lru" -> LRU_setMaxSize(map, n)
                  [] impl = "lru2" -> LRU2_setMaxSize(map, n)
                  [] impl = "lru3" -> LRU3_setMaxSize(map, n)
                  [] impl = "tile" -> Tile_setMaxSize(map, n)
                  [] impl = "tile1" -> Tile1_setMaxSize(map, n),
                Op("setMaxSize", 0, 0, 0, {}, n))

Filter ==
    /\ Running
    /\ \E keep \in SUBSET InputValues(impl) :
         Finish(CASE impl = "lru" -> LRU_filter(map, maxEntries, keep)
                  [] impl = "lru2" -> LRU2_filter(map, maxEntries, keep)
                  [] impl = "lru3" -> LRU3_filter(map, maxEntries, keep)
                  [] impl = "tile" -> Tile_filter(map, maxEntries, keep)
                  [] impl = "tile1" -> Tile1_filter(map, maxEntries, keep),
                Op("filter", 0, 0, 0, keep, 0))

Clear ==
    /\ Running
    /\ Finish(CASE impl = "lru" -> LRU_clear(map, maxEntries, hasHook)
                [] impl = "lru2" -> LRU2_clear(map, maxEntries)
                [] impl = "lru3" -> LRU3_clear(map, maxEntries)
                [] impl = "tile" -> Tile_clear(map, maxEntries)
                [] impl = "tile1" -> Tile1_clear(map, maxEntries),
              Op("clear", 0, 0, 0, {}, 0))

\* removeOldest() called from outside: only the current BoundedLRUCache has it
RemoveOldest ==
    /\ Running
    /\ impl = "lru"
    /\ LET r == LRU_removeOldest(map)
       IN Finish(Outcome(r.map, maxEntries, r.hooks, RetVoid),
                 Op("removeOldest", 0, 0, 0, {}, 0))

CacheNext ==
    \/ (Get /\ UNCHANGED <<diffVars, fadeVars, dataVars, mergeVars, queryVars>>)
    \/ (Set /\ UNCHANGED <<diffVars, fadeVars, dataVars, mergeVars, queryVars>>)
    \/ (Remove /\ UNCHANGED <<diffVars, fadeVars, dataVars, mergeVars, queryVars>>)
    \/ (SetMaxSize /\ UNCHANGED <<diffVars, fadeVars, dataVars, mergeVars, queryVars>>)
    \/ (Filter /\ UNCHANGED <<diffVars, fadeVars, dataVars, mergeVars, queryVars>>)
    \/ (Clear /\ UNCHANGED <<diffVars, fadeVars, dataVars, mergeVars, queryVars>>)

\* the operations of the current BoundedLRUCache
LRUCacheNext ==
    \/ CacheNext
    \/ (RemoveOldest /\ UNCHANGED <<diffVars, fadeVars, dataVars, mergeVars, queryVars>>)

(***************************************************************************)
(* GeoJSON source diffs: getFeatureId / applySourceDiff / mergeSourceDiffs *)
(* Feature ids, property keys, property values and geometries are strings; *)
(* "null" is a missing id (null or undefined), "none" a field not given.   *)
(***************************************************************************)
NoId == "null"
NoGeometry == "none"
NoPromoteId == "none"

\* a JS object used as a property bag: key -> value
EmptyProps == [k \in {} |-> "v1"]
PropsDelete(props, key) == [k \in DOMAIN props \ {key} |-> props[k]]
PropsSet(props, key, value) ==
    [k \in DOMAIN props \cup {key} |-> IF k = key THEN value ELSE props[k]]

Feature(id, geometry, props) == [id |-> id, geometry |-> geometry, properties |-> props]

\* the working set Map<GeoJSONFeatureId, GeoJSON.Feature>: id -> feature
EmptyWs == [i \in {} |-> Feature(NoId, NoGeometry, EmptyProps)]
WsDelete(w, id) == [i \in DOMAIN w \ {id} |-> w[i]]
WsSet(w, id, f) == [i \in DOMAIN w \cup {id} |-> IF i = id THEN f ELSE w[i]]

\* "properties: null", which GeoJSON allows, told apart from every property bag
NullProps == [k \in {"(null)"} |-> "(null)"]
\* reading a property of null raises a TypeError
IdTypeError == "TypeError"

\* promoteId ? feature.properties[promoteId] : feature.id
getFeatureId(feature, promoteId) ==
    IF promoteId # NoPromoteId
    THEN (IF feature.properties = NullProps THEN IdTypeError
          ELSE IF promoteId \in DOMAIN feature.properties
          THEN feature.properties[promoteId] ELSE NoId)
    ELSE feature.id

(***************************************************************************)
(* isUpdateableGeoJSON                                                     *)
(***************************************************************************)
\* a GeoJSON value: null, undefined, a Feature (features holds it), a
\* FeatureCollection, or a bare geometry
Data(type, features) == [type |-> type, features |-> features]
NoData == Data("undefined", <<>>)

\* the loop over data.features with its seenIds set
RECURSIVE uniqueIdsFrom(_, _, _, _)
uniqueIdsFrom(features, promoteId, i, seenIds) ==
    IF i > Len(features) THEN "true"
    ELSE LET id == getFeatureId(features[i], promoteId)
         IN IF id = IdTypeError THEN "TypeError"
            ELSE IF id = NoId THEN "false"
            ELSE IF id \in seenIds THEN "false"
            ELSE uniqueIdsFrom(features, promoteId, i + 1, seenIds \cup {id})

\* "true", "false", or "TypeError" when the call throws
isUpdateableGeoJSON(data, promoteId) ==
    IF data.type \in {"null", "undefined"} THEN "true"
    ELSE IF data.type = "Feature"
    THEN LET id == getFeatureId(data.features[1], promoteId)
         IN IF id = IdTypeError THEN "TypeError"
            ELSE IF id # NoId THEN "true" ELSE "false"
    ELSE IF data.type = "FeatureCollection"
    THEN uniqueIdsFrom(data.features, promoteId, 1, {})
    ELSE "false"

\* "for (const key of update.removeProperties) delete feature.properties[key]"
RECURSIVE removeProps(_, _, _)
removeProps(props, keys, i) ==
    IF i > Len(keys) THEN props ELSE removeProps(PropsDelete(props, keys[i]), keys, i + 1)

\* "for (const {key, value} of update.addOrUpdateProperties) ...[key] = value"
RECURSIVE addOrUpdateProps(_, _, _)
addOrUpdateProps(props, pairs, i) ==
    IF i > Len(pairs) THEN props
    ELSE addOrUpdateProps(PropsSet(props, pairs[i].key, pairs[i].value), pairs, i + 1)

\* one entry of diff.update applied to the working set (the body of the update loop)
applyUpdate(w, update) ==
    IF update.id \notin DOMAIN w THEN w
    ELSE LET feature == w[update.id]
             changeGeometry == update.newGeometry # NoGeometry
             changeProps == \/ update.removeAllProperties
                            \/ Len(update.removeProperties) > 0
                            \/ Len(update.addOrUpdateProperties) > 0
             geometry == IF changeGeometry THEN update.newGeometry ELSE feature.geometry
             \* "{}" or "{...feature.properties || {}}": null counts as empty
             base == IF update.removeAllProperties \/ feature.properties = NullProps
                     THEN EmptyProps ELSE feature.properties
             props == IF changeProps
                      THEN addOrUpdateProps(removeProps(base, update.removeProperties, 1),
                                            update.addOrUpdateProperties, 1)
                      ELSE feature.properties
         IN IF ~changeGeometry /\ ~changeProps THEN w
            ELSE WsSet(w, update.id, Feature(feature.id, geometry, props))

RECURSIVE applyRemoves(_, _, _)
applyRemoves(w, ids, i) ==
    IF i > Len(ids) THEN w ELSE applyRemoves(WsDelete(w, ids[i]), ids, i + 1)

\* what a call of applySourceDiff leaves: the working set, and whether it threw
Applied(w, thrown) == [ws |-> w, thrown |-> thrown]

\* the add loop; getFeatureId throwing ends the call with what was done so far
RECURSIVE applyAdds(_, _, _, _)
applyAdds(w, features, promoteId, i) ==
    IF i > Len(features) THEN Applied(w, FALSE)
    ELSE LET id == getFeatureId(features[i], promoteId)
         IN IF id = IdTypeError THEN Applied(w, TRUE)
            ELSE applyAdds(IF id # NoId THEN WsSet(w, id, features[i]) ELSE w,
                           features, promoteId, i + 1)

RECURSIVE applyUpdates(_, _, _)
applyUpdates(w, updates, i) ==
    IF i > Len(updates) THEN w ELSE applyUpdates(applyUpdate(w, updates[i]), updates, i + 1)

\* the same four steps with the updates run before the adds: the order the
\* source does not follow
applySourceDiffUpdatesFirst(updateable, diff, promoteId) ==
    LET cleared == IF diff.removeAll THEN EmptyWs ELSE updateable
        removed == applyRemoves(cleared, diff.remove, 1)
        updated == applyUpdates(removed, diff.update, 1)
    IN applyAdds(updated, diff.add, promoteId, 1)

\* the four blocks of applySourceDiff, in the order the code runs them; a throw
\* in the add loop ends the call before the updates, and a diff that is not
\* given makes the first read, diff.removeAll, throw
applySourceDiff(updateable, diff, promoteId) ==
    IF ~diff.defined THEN Applied(updateable, TRUE)
    ELSE LET cleared == IF diff.removeAll THEN EmptyWs ELSE updateable
             removed == applyRemoves(cleared, diff.remove, 1)
             added == applyAdds(removed, diff.add, promoteId, 1)
         IN IF added.thrown THEN added
            ELSE Applied(applyUpdates(added.ws, diff.update, 1), FALSE)

(***************************************************************************)
(* applySourceDiff on objects: the working set maps an id to a reference   *)
(* to a feature object, and a feature object refers to its properties      *)
(* object. References are positions in the sequences of objects allocated  *)
(* so far; NoRef is null.                                                  *)
(***************************************************************************)
NoRef == 0
FeatureObject(id, geometry, propsRef) == [id |-> id, geometry |-> geometry, props |-> propsRef]
Heap(w, fobjs, pobjs, error) == [ws |-> w, fobjs |-> fobjs, pobjs |-> pobjs, error |-> error]
EmptyHeap == Heap([i \in {} |-> NoRef], <<>>, <<>>, FALSE)

\* a feature given by value becomes an object of the heap: its reference and the heap
heapAlloc(h, feature) ==
    IF feature.properties = NullProps
    THEN [h EXCEPT !.fobjs = Append(@, FeatureObject(feature.id, feature.geometry, NoRef))]
    ELSE [h EXCEPT !.pobjs = Append(@, feature.properties),
                   !.fobjs = Append(@, FeatureObject(feature.id, feature.geometry,
                                                     Len(h.pobjs) + 1))]

\* the feature a reference stands for, by value
heapFeature(h, ref) ==
    Feature(h.fobjs[ref].id, h.fobjs[ref].geometry,
            IF h.fobjs[ref].props = NoRef THEN NullProps ELSE h.pobjs[h.fobjs[ref].props])

\* "for (const id of diff.remove) updateable.delete(id)"
RECURSIVE heapRemoves(_, _, _)
heapRemoves(h, ids, i) ==
    IF i > Len(ids) THEN h
    ELSE heapRemoves([h EXCEPT !.ws = WsDelete(h.ws, ids[i])], ids, i + 1)

\* the add loop; getFeatureId throwing ends the call with what was done so far
RECURSIVE heapAdds(_, _, _, _)
heapAdds(h, features, promoteId, i) ==
    IF i > Len(features) THEN h
    ELSE LET id == getFeatureId(features[i], promoteId)
         IN IF id = IdTypeError THEN [h EXCEPT !.error = TRUE]
            ELSE IF id = NoId THEN heapAdds(h, features, promoteId, i + 1)
            ELSE LET a == heapAlloc(h, features[i])
                 IN heapAdds([a EXCEPT !.ws = WsSet(a.ws, id, Len(a.fobjs))],
                             features, promoteId, i + 1)

\* the update entry changes nothing: no geometry and no property change
nothingToDo(update) ==
    /\ update.newGeometry = NoGeometry
    /\ ~update.removeAllProperties
    /\ Len(update.removeProperties) = 0
    /\ Len(update.addOrUpdateProperties) = 0

\* the properties an update leaves, from those it found (null counts as empty)
updatedProps(h, old, update) ==
    LET base == IF update.removeAllProperties \/ old.props = NoRef
                THEN EmptyProps ELSE h.pobjs[old.props]
    IN addOrUpdateProps(removeProps(base, update.removeProperties, 1),
                        update.addOrUpdateProperties, 1)

\* "feature = {...feature}; updateable.set(update.id, feature)" and the writes
\* that follow: a new feature object, and a new properties object when the
\* properties change; only the new objects are written
heapChange(h, update) ==
    LET old == h.fobjs[h.ws[update.id]]
        changeGeometry == update.newGeometry # NoGeometry
        changeProps == \/ update.removeAllProperties
                       \/ Len(update.removeProperties) > 0
                       \/ Len(update.addOrUpdateProperties) > 0
        geometry == IF changeGeometry THEN update.newGeometry ELSE old.geometry
        pobjs == IF changeProps THEN Append(h.pobjs, updatedProps(h, old, update))
                 ELSE h.pobjs
        propsRef == IF changeProps THEN Len(h.pobjs) + 1 ELSE old.props
    IN Heap(WsSet(h.ws, update.id, Len(h.fobjs) + 1),
            Append(h.fobjs, FeatureObject(old.id, geometry, propsRef)),
            pobjs, h.error)

\* the body of the update loop with the clone made before the "nothing to do" test
heapUpdateCloneFirst(h, update) ==
    IF update.id \notin DOMAIN h.ws THEN h
    ELSE heapChange(h, update)

\* the body of the update loop writing into the stored objects, without the copies
heapUpdateInPlace(h, update) ==
    IF update.id \notin DOMAIN h.ws THEN h
    ELSE IF nothingToDo(update) THEN h
    ELSE LET ref == h.ws[update.id]
             old == h.fobjs[ref]
             changeProps == \/ update.removeAllProperties
                            \/ Len(update.removeProperties) > 0
                            \/ Len(update.addOrUpdateProperties) > 0
             g == [h EXCEPT !.fobjs[ref].geometry =
                                IF update.newGeometry # NoGeometry
                                THEN update.newGeometry ELSE @]
         IN IF ~changeProps THEN g
            ELSE IF old.props = NoRef
            THEN [g EXCEPT !.pobjs = Append(@, updatedProps(h, old, update)),
                           !.fobjs[ref].props = Len(h.pobjs) + 1]
            ELSE [g EXCEPT !.pobjs[old.props] = updatedProps(h, old, update)]

\* the body of the update loop: an id that is not held and an entry with nothing
\* to do are skipped ("continue") before anything is copied
heapUpdate(h, update) ==
    IF update.id \notin DOMAIN h.ws THEN h
    ELSE IF nothingToDo(update) THEN h
    ELSE heapChange(h, update)

RECURSIVE heapUpdates(_, _, _)
heapUpdates(h, updates, i) ==
    IF i > Len(updates) THEN h ELSE heapUpdates(heapUpdate(h, updates[i]), updates, i + 1)

\* applySourceDiff(updateable, diff, promoteId), mutating updateable
applySourceDiffInPlace(h, diff, promoteId) ==
    LET cleared == IF diff.removeAll THEN [h EXCEPT !.ws = EmptyHeap.ws] ELSE h
        removed == heapRemoves(cleared, diff.remove, 1)
        added == heapAdds(removed, diff.add, promoteId, 1)
    IN IF added.error THEN added ELSE heapUpdates(added, diff.update, 1)

\* ---- the hashed view: a Set is a sequence without repeats, a Map a sequence of
\* [key, val] entries, both in insertion order
HEntry(k, v) == [key |-> k, val |-> v]
HHas(m, k) == \E i \in 1..Len(m) : m[i].key = k
HIndex(m, k) == CHOOSE i \in 1..Len(m) : m[i].key = k
HGet(m, k) == m[HIndex(m, k)].val
HDelete(m, k) == SelectSeq(m, LAMBDA e : e.key # k)
HSet(m, k, v) ==
    IF HHas(m, k) THEN [m EXCEPT ![HIndex(m, k)] = HEntry(k, v)] ELSE Append(m, HEntry(k, v))
HValues(m) == [i \in 1..Len(m) |-> m[i].val]

\* new Map(entries)
RECURSIVE HFromEntries(_, _, _)
HFromEntries(m, entries, i) ==
    IF i > Len(entries) THEN m
    ELSE HFromEntries(HSet(m, entries[i].key, entries[i].val), entries, i + 1)

SetHas(s, x) == \E i \in 1..Len(s) : s[i] = x
SetDelete(s, x) == SelectSeq(s, LAMBDA y : y # x)
\* new Set(values)
RECURSIVE SetFrom(_, _, _)
SetFrom(s, values, i) ==
    IF i > Len(values) THEN s
    ELSE SetFrom(IF SetHas(s, values[i]) THEN s ELSE Append(s, values[i]), values, i + 1)

\* diffToHashed: add is keyed by feature.id, update by update.id
diffToHashed(diff) ==
    [removeAll |-> diff.removeAll,
     remove |-> SetFrom(<<>>, diff.remove, 1),
     add |-> HFromEntries(<<>>, [i \in 1..Len(diff.add) |-> HEntry(diff.add[i].id, diff.add[i])], 1),
     update |-> HFromEntries(<<>>, [i \in 1..Len(diff.update) |->
                                        HEntry(diff.update[i].id, diff.update[i])], 1)]

hashedToDiff(hashed) ==
    [defined |-> TRUE,
     removeAll |-> hashed.removeAll,
     remove |-> hashed.remove,
     add |-> HValues(hashed.add),
     update |-> HValues(hashed.update)]

\* a merge that puts the entries of next before those of prev
mergeFeatureDiffsNextFirst(prev, next) ==
    [id |-> prev.id,
     newGeometry |-> IF next.newGeometry # NoGeometry THEN next.newGeometry
                     ELSE prev.newGeometry,
     addOrUpdateProperties |-> next.addOrUpdateProperties \o prev.addOrUpdateProperties,
     removeProperties |-> next.removeProperties \o prev.removeProperties,
     removeAllProperties |-> prev.removeAllProperties \/ next.removeAllProperties]

mergeFeatureDiffs(prev, next) ==
    [id |-> prev.id,
     newGeometry |-> IF next.newGeometry # NoGeometry THEN next.newGeometry
                     ELSE prev.newGeometry,
     addOrUpdateProperties |-> prev.addOrUpdateProperties \o next.addOrUpdateProperties,
     removeProperties |-> prev.removeProperties \o next.removeProperties,
     removeAllProperties |-> prev.removeAllProperties \/ next.removeAllProperties]

\* the merge without the loop over next.remove: prev's entries stay
dropRemovedNone(m, ids, i) == m

\* "for (const id of next.remove) { prev.add.delete(id); prev.update.delete(id); }"
RECURSIVE dropRemoved(_, _, _)
dropRemoved(m, ids, i) ==
    IF i > Len(ids) THEN m ELSE dropRemoved(HDelete(m, ids[i]), ids, i + 1)

\* the loop over next.update: an id also updated in prev gets the merged feature
\* diff in next.update and loses its entry in prev.update
RECURSIVE mergeUpdates(_, _, _)
mergeUpdates(prevUpdate, nextUpdate, i) ==
    IF i > Len(nextUpdate) THEN [prev |-> prevUpdate, next |-> nextUpdate]
    ELSE LET id == nextUpdate[i].key
         IN IF ~HHas(prevUpdate, id) THEN mergeUpdates(prevUpdate, nextUpdate, i + 1)
            ELSE mergeUpdates(HDelete(prevUpdate, id),
                              HSet(nextUpdate, id,
                                   mergeFeatureDiffs(HGet(prevUpdate, id), nextUpdate[i].val)),
                              i + 1)

\* the merge without the loop over merged.add: the combined remove stays
dropAddedNone(remove, add, i) == remove

\* "for (const id of merged.add.keys()) merged.remove.delete(id)"
RECURSIVE dropAdded(_, _, _)
dropAdded(remove, add, i) ==
    IF i > Len(add) THEN remove ELSE dropAdded(SetDelete(remove, add[i].key), add, i + 1)

EmptyDiff ==
    [defined |-> TRUE, removeAll |-> FALSE, remove |-> <<>>, add |-> <<>>, update |-> <<>>]
\* an argument that is not given (undefined)
UndefinedDiff ==
    [defined |-> FALSE, removeAll |-> FALSE, remove |-> <<>>, add |-> <<>>, update |-> <<>>]

mergeSourceDiffs(prevDiffArg, nextDiffArg) ==
    IF ~prevDiffArg.defined THEN (IF nextDiffArg.defined THEN nextDiffArg ELSE EmptyDiff)
    ELSE IF ~nextDiffArg.defined THEN prevDiffArg
    ELSE LET prev == diffToHashed(prevDiffArg)
             next == diffToHashed(nextDiffArg)
             prevAdd0 == IF next.removeAll THEN <<>> ELSE prev.add
             prevUpdate0 == IF next.removeAll THEN <<>> ELSE prev.update
             prevAdd == dropRemoved(prevAdd0, next.remove, 1)
             prevUpdate1 == dropRemoved(prevUpdate0, next.remove, 1)
             upd == mergeUpdates(prevUpdate1, next.update, 1)
             mRemove == SetFrom(<<>>, prev.remove \o next.remove, 1)
             mAdd == HFromEntries(<<>>, prevAdd \o next.add, 1)
             mUpdate == HFromEntries(<<>>, upd.prev \o upd.next, 1)
         IN hashedToDiff(
              [removeAll |-> prev.removeAll \/ next.removeAll,
               remove |-> IF Len(mRemove) > 0 /\ Len(mAdd) > 0
                          THEN dropAdded(mRemove, mAdd, 1) ELSE mRemove,
               add |-> mAdd,
               update |-> mUpdate])

\* "(merged.addOrUpdateProperties ??= []).push(...next.addOrUpdateProperties)":
\* merged is the copy {...prev}, so an array prev has is the array pushed on; a
\* field prev has not (the empty sequence here) gets a new array in the copy
pushedOn(prevArray, nextArray) ==
    IF prevArray = <<>> THEN prevArray ELSE prevArray \o nextArray

\* the prev argument of mergeFeatureDiffs after the call
prevAfterMergeFeatureDiffs(prev, next) ==
    [prev EXCEPT !.addOrUpdateProperties = pushedOn(@, next.addOrUpdateProperties),
                 !.removeProperties = pushedOn(@, next.removeProperties)]

\* the prevDiff argument of mergeSourceDiffs after the call: the update entry the
\* Map of prev holds for an id (the last one) is given to mergeFeatureDiffs when
\* next has not removed the id and updates it too
prevAfterMergeSourceDiffs(prevDiffArg, nextDiffArg) ==
    IF ~prevDiffArg.defined \/ ~nextDiffArg.defined THEN prevDiffArg
    ELSE LET prev == diffToHashed(prevDiffArg)
             next == diffToHashed(nextDiffArg)
             prevUpdate0 == IF next.removeAll THEN <<>> ELSE prev.update
             prevUpdate1 == dropRemoved(prevUpdate0, next.remove, 1)
             held(i) == \A j \in (i + 1)..Len(prevDiffArg.update) :
                            prevDiffArg.update[j].id # prevDiffArg.update[i].id
         IN [prevDiffArg EXCEPT !.update =
                [i \in 1..Len(prevDiffArg.update) |->
                    LET u == prevDiffArg.update[i]
                    IN IF held(i) /\ HHas(prevUpdate1, u.id) /\ HHas(next.update, u.id)
                       THEN prevAfterMergeFeatureDiffs(u, HGet(next.update, u.id))
                       ELSE u]]

\* a diff mergeSourceDiffs(prevDiffArg, nextDiffArg) returned earlier, after a
\* later call on the same two objects: the update entry mergeFeatureDiffs made
\* for an id is the copy {...prev}, whose arrays are those of prev's entry where
\* prev has them, so it shows what later calls push on them. prevBefore is
\* prev before the first call, prevNow prev as it is now
resultAfterMergeSourceDiffs(returned, prevBefore, prevNow, nextDiffArg) ==
    IF ~prevBefore.defined \/ ~nextDiffArg.defined THEN returned
    ELSE LET prev == diffToHashed(prevBefore)
             next == diffToHashed(nextDiffArg)
             prevUpdate0 == IF next.removeAll THEN <<>> ELSE prev.update
             prevUpdate1 == dropRemoved(prevUpdate0, next.remove, 1)
             held(i) == \A j \in (i + 1)..Len(prevBefore.update) :
                            prevBefore.update[j].id # prevBefore.update[i].id
             merges(id) == HHas(prevUpdate1, id) /\ HHas(next.update, id)
             entryOf(id) == CHOOSE i \in 1..Len(prevBefore.update) :
                               prevBefore.update[i].id = id /\ held(i)
         IN [returned EXCEPT !.update =
                [k \in 1..Len(returned.update) |->
                    LET u == returned.update[k]
                    IN IF ~merges(u.id) THEN u
                       ELSE [u EXCEPT
                               !.addOrUpdateProperties =
                                   IF prevBefore.update[entryOf(u.id)].addOrUpdateProperties
                                          = <<>>
                                   THEN @
                                   ELSE prevNow.update[entryOf(u.id)].addOrUpdateProperties,
                               !.removeProperties =
                                   IF prevBefore.update[entryOf(u.id)].removeProperties = <<>>
                                   THEN @
                                   ELSE prevNow.update[entryOf(u.id)].removeProperties]]]

(***************************************************************************)
(* The diff scenario: a working set and two pending diffs; the diffs are   *)
(* applied one after the other to one copy of the working set, and merged  *)
(* and applied as one diff to another copy                                 *)
(***************************************************************************)
Ids == {"n1", "n2"}
PropsOfAdd == {EmptyProps, [k \in {"a"} |-> "v1"]}
WsFeatures(id) == {Feature(id, "g0", [k \in {"a"} |-> "v1"])}
WorkingSets ==
    UNION {{w \in [S -> UNION {WsFeatures(id) : id \in S}] : \A id \in S : w[id].id = id}
               : S \in SUBSET Ids}
AddFeatures == {Feature(id, "g1", props) : id \in Ids, props \in PropsOfAdd}
FeatureDiffs ==
    [id : Ids,
     newGeometry : {NoGeometry, "g2"},
     removeAllProperties : BOOLEAN,
     removeProperties : {<<>>, <<"a">>},
     addOrUpdateProperties : {<<>>, <<[key |-> "a", value |-> "v2"]>>}]

DiffsOfShape(r, a, u) ==
    [defined : {TRUE}, removeAll : BOOLEAN, remove : [1..r -> Ids],
     add : [1..a -> AddFeatures], update : [1..u -> FeatureDiffs]]
\* the diffs with n entries in all
DiffsOfSize(n) ==
    UNION {DiffsOfShape(t[1], t[2], n - t[1] - t[2]) :
              t \in {x \in (0..MaxFieldLen) \X (0..MaxFieldLen) :
                         n - x[1] - x[2] \in 0..MaxFieldLen}}
DiffSize(d) == Len(d.remove) + Len(d.add) + Len(d.update)

\* a call that throws ends the sequence of calls
ApplyPrev ==
    /\ dpc = "start"
    /\ LET r == applySourceDiff(ws, prevDiff, promoteOpt)
       IN /\ midWs' = r.ws
          /\ dpc' = IF r.thrown THEN "thrown" ELSE "prev"
    /\ UNCHANGED <<ws, prevDiff, nextDiff, merged, promoteOpt, seqWs, mergedWs>>

ApplyNext ==
    /\ dpc = "prev"
    /\ LET r == applySourceDiff(midWs, nextDiff, promoteOpt)
       IN /\ seqWs' = r.ws
          /\ dpc' = IF r.thrown THEN "thrown" ELSE "next"
    /\ UNCHANGED <<ws, prevDiff, nextDiff, merged, promoteOpt, midWs, mergedWs>>

Merge ==
    /\ dpc = "next"
    /\ merged' = mergeSourceDiffs(prevDiff, nextDiff)
    /\ dpc' = "merged"
    /\ UNCHANGED <<ws, prevDiff, nextDiff, promoteOpt, midWs, seqWs, mergedWs>>

ApplyMerged ==
    /\ dpc = "merged"
    /\ LET r == applySourceDiff(ws, merged, promoteOpt)
       IN /\ mergedWs' = r.ws
          /\ dpc' = IF r.thrown THEN "thrown" ELSE "done"
    /\ UNCHANGED <<ws, prevDiff, nextDiff, merged, promoteOpt, midWs, seqWs>>

DiffNext ==
    \/ (ApplyPrev /\ UNCHANGED <<cacheVars, fadeVars, dataVars, mergeVars, queryVars>>)
    \/ (ApplyNext /\ UNCHANGED <<cacheVars, fadeVars, dataVars, mergeVars, queryVars>>)
    \/ (Merge /\ UNCHANGED <<cacheVars, fadeVars, dataVars, mergeVars, queryVars>>)
    \/ (ApplyMerged /\ UNCHANGED <<cacheVars, fadeVars, dataVars, mergeVars, queryVars>>)

(***************************************************************************)
(* The merge scenario: two pending diffs are merged, merged a second time  *)
(* from the same objects, and the merged diff and the two diffs in turn    *)
(* are applied to copies of one working set. Features are found by their   *)
(* id, or by the promoted property "a" and then carry no id.               *)
(***************************************************************************)
MergeFeature(id, geometry, promoteId) ==
    IF promoteId = NoPromoteId THEN Feature(id, geometry, EmptyProps)
    ELSE Feature(NoId, geometry, [k \in {"a"} |-> id])
MergeWorkingSets(promoteId) ==
    {EmptyWs, [id \in Ids |-> MergeFeature(id, "g0", promoteId)]}
\* update entries of one of the two diffs: the geometry, the key removed and the
\* value set tell the entries of prev from those of next
MergeFeatureDiffs(geometry, key, value) ==
    [id : Ids,
     newGeometry : {NoGeometry, geometry},
     removeAllProperties : BOOLEAN,
     removeProperties : {<<>>, <<key>>},
     addOrUpdateProperties : {<<>>, <<[key |-> "a", value |-> value]>>}]
PrevFeatureDiffs == MergeFeatureDiffs("g2", "a", "v2")
NextFeatureDiffs == MergeFeatureDiffs("g3", "b", "v3")
MergeDiffsOfShape(r, a, u, promoteId, updates) ==
    [defined : {TRUE}, removeAll : BOOLEAN, remove : [1..r -> Ids],
     add : [1..a -> {MergeFeature(id, "g1", promoteId) : id \in Ids}],
     update : [1..u -> updates]]
MergeDiffsOfSize(n, promoteId, updates) ==
    UNION {MergeDiffsOfShape(t[1], t[2], n - t[1] - t[2], promoteId, updates) :
              t \in {x \in (0..MaxFieldLen) \X (0..MaxFieldLen) :
                         n - x[1] - x[2] \in 0..MaxFieldLen}}
MergeFirst ==
    /\ dpc = "unmerged"
    /\ merged' = mergeSourceDiffs(prevDiff, nextDiff)
    /\ prevAfter' = prevAfterMergeSourceDiffs(prevDiff, nextDiff)
    /\ dpc' = "merged"
    /\ UNCHANGED <<ws, prevDiff, nextDiff, promoteOpt, midWs, seqWs, mergedWs, mergedAgain>>

\* the second call on the same two objects: it pushes on the arrays of prev once
\* more, and these are also the arrays of the first result
MergeSecond ==
    /\ dpc = "merged"
    /\ mergedAgain' = mergeSourceDiffs(prevAfter, nextDiff)
    /\ prevAfter' = prevAfterMergeSourceDiffs(prevAfter, nextDiff)
    /\ merged' = resultAfterMergeSourceDiffs(merged, prevDiff,
                                             prevAfterMergeSourceDiffs(prevAfter, nextDiff),
                                             nextDiff)
    /\ dpc' = "again"
    /\ UNCHANGED <<ws, prevDiff, nextDiff, promoteOpt, midWs, seqWs, mergedWs>>

ApplyBoth ==
    /\ dpc = "again"
    \* three calls, each on a copy and caught on its own, with the objects as
    \* the two merges left them: prev and the first result
    /\ LET first == applySourceDiff(ws, prevAfter, promoteOpt)
           second == applySourceDiff(first.ws, nextDiff, promoteOpt)
           both == applySourceDiff(ws, merged, promoteOpt)
       IN /\ midWs' = first.ws
          /\ seqWs' = second.ws
          /\ mergedWs' = both.ws
          /\ dpc' = IF first.thrown \/ second.thrown \/ both.thrown
                    THEN "thrown" ELSE "done"
    /\ UNCHANGED <<ws, prevDiff, nextDiff, merged, promoteOpt, prevAfter, mergedAgain>>

MergeNext ==
    \/ (MergeFirst /\ UNCHANGED <<cacheVars, fadeVars, dataVars, queryVars>>)
    \/ (MergeSecond /\ UNCHANGED <<cacheVars, fadeVars, dataVars, queryVars>>)
    \/ (ApplyBoth /\ UNCHANGED <<cacheVars, fadeVars, dataVars, queryVars>>)

(***************************************************************************)
(* Tile: the fade hold of a resident tile. The class is not among the      *)
(* sources; its four methods follow sections 3 and 4.4 of the              *)
(* specification: the hold is a timer armed with a duration, finished once *)
(* the elapsed time has reached the duration.                              *)
(***************************************************************************)
NewTile(symbols) == [hasSymbolBuckets |-> symbols, holding |-> FALSE, holdUntil |-> 0]
holdingForSymbolFade(tile) == tile.holding
setSymbolHoldDuration(tile, duration, clock) ==
    [tile EXCEPT !.holding = TRUE, !.holdUntil = clock + duration]
symbolFadeFinished(tile, clock) == ~tile.holding \/ clock >= tile.holdUntil
clearSymbolFadeHold(tile) == [tile EXCEPT !.holding = FALSE, !.holdUntil = 0]

(***************************************************************************)
(* VectorTileStrategy.onFinishUpdate                                       *)
(***************************************************************************)
ResidentKeys == 1..NumResident
Durations == 0..MaxFade
\* Record<string, Tile>: key -> tile
NoTiles == [k \in {} |-> NewTile(FALSE)]

\* a loop body that leaves the hold of a retained tile as it is
finishTileKeepsHold(tile, retained, fadeDuration, clock) ==
    IF retained THEN tile
    ELSE IF ~tile.hasSymbolBuckets THEN tile
    ELSE IF ~holdingForSymbolFade(tile) THEN setSymbolHoldDuration(tile, fadeDuration, clock)
    ELSE tile

\* the body of the loop for one tile: the tile afterwards
finishTile(tile, retained, fadeDuration, clock) ==
    IF retained THEN clearSymbolFadeHold(tile)
    ELSE IF ~tile.hasSymbolBuckets THEN tile
    ELSE IF ~holdingForSymbolFade(tile) THEN setSymbolHoldDuration(tile, fadeDuration, clock)
    ELSE tile

\* a loop body that returns every held tile, whatever its timer says
finishRemovesAnyHeld(tile, retained, clock) ==
    IF retained THEN FALSE
    ELSE IF ~tile.hasSymbolBuckets THEN TRUE
    ELSE holdingForSymbolFade(tile)

\* a loop body that looks at the hold before it looks at the symbol buckets
finishRemovesHoldFirst(tile, retained, clock) ==
    IF retained THEN FALSE
    ELSE IF holdingForSymbolFade(tile) THEN symbolFadeFinished(tile, clock)
    ELSE ~tile.hasSymbolBuckets

\* a loop body without the test of retain
finishRemovesUnretained(tile, retained, clock) ==
    IF ~tile.hasSymbolBuckets THEN TRUE
    ELSE IF ~holdingForSymbolFade(tile) THEN FALSE
    ELSE symbolFadeFinished(tile, clock)

\* the body of the loop for one tile: whether its key is pushed on removeIds
finishRemoves(tile, retained, clock) ==
    IF retained THEN FALSE
    ELSE IF ~tile.hasSymbolBuckets THEN TRUE
    ELSE IF ~holdingForSymbolFade(tile) THEN FALSE
    ELSE symbolFadeFinished(tile, clock)

\* the keys of a set in the order the loop visits them (ascending)
RECURSIVE KeyOrder(_)
KeyOrder(S) ==
    IF S = {} THEN <<>>
    ELSE LET k == CHOOSE x \in S : \A y \in S : x <= y
         IN <<k>> \o KeyOrder(S \ {k})

\* onFinishUpdate(tiles, _, retain, _, _, fadeDuration): the tiles afterwards and
\* the list returned
onFinishUpdate(ts, retain, fadeDuration, clock) ==
    [tiles |-> [k \in DOMAIN ts |-> finishTile(ts[k], k \in retain, fadeDuration, clock)],
     removeIds |-> SelectSeq(KeyOrder(DOMAIN ts),
                             LAMBDA k : finishRemoves(ts[k], k \in retain, clock))]

\* getTilesHoldingForSymbolFade(tiles): the keys of the tiles in a fade hold
getTilesHoldingForSymbolFade(ts) ==
    SelectSeq(KeyOrder(DOMAIN ts), LAMBDA k : holdingForSymbolFade(ts[k]))

\* an update cycle of the tile manager ends with onFinishUpdate; cycle is
\* "update" until the caller has dropped the tiles returned, "discarded" right
\* after, and "open" once the next frame has begun
FinishUpdate ==
    /\ cycle # "update"
    /\ \E retain \in SUBSET ResidentKeys, fadeDuration \in Durations :
         LET r == onFinishUpdate(tiles, retain, fadeDuration, now)
         IN /\ tiles' = r.tiles
            /\ removeIds' = r.removeIds
            /\ prevTiles' = tiles
            /\ lastRetain' = retain
            /\ lastFade' = fadeDuration
    /\ cycle' = "update"
    /\ UNCHANGED now

\* the next frame begins: the record of the last update cycle is dropped
OpenFrame ==
    /\ cycle' = "open"
    /\ removeIds' = <<>>
    /\ prevTiles' = NoTiles
    /\ lastRetain' = {}
    /\ lastFade' = 0

\* the caller drops the tiles onFinishUpdate returned
Discard ==
    /\ cycle = "update"
    /\ tiles' = [k \in DOMAIN tiles \ {removeIds[i] : i \in 1..Len(removeIds)} |-> tiles[k]]
    /\ cycle' = "discarded"
    /\ UNCHANGED <<now, removeIds, prevTiles, lastRetain, lastFade>>

\* a tile becomes resident
AddTile ==
    /\ cycle # "update"
    /\ \E k \in ResidentKeys \ DOMAIN tiles, symbols \in BOOLEAN :
         tiles' = [x \in DOMAIN tiles \cup {k} |-> IF x = k THEN NewTile(symbols) ELSE tiles[x]]
    /\ OpenFrame
    /\ UNCHANGED now

\* a resident tile is reloaded with or without symbol buckets
ReloadTile ==
    /\ cycle # "update"
    /\ \E k \in DOMAIN tiles :
         tiles' = [tiles EXCEPT ![k].hasSymbolBuckets = ~tiles[k].hasSymbolBuckets]
    /\ OpenFrame
    /\ UNCHANGED now

\* time passes
Tick ==
    /\ cycle # "update"
    /\ now < MaxTime
    /\ now' = now + 1
    /\ OpenFrame
    /\ UNCHANGED tiles

FadeNext ==
    \/ (FinishUpdate /\ UNCHANGED <<cacheVars, diffVars, dataVars, mergeVars, queryVars>>)
    \/ (Discard /\ UNCHANGED <<cacheVars, diffVars, dataVars, mergeVars, queryVars>>)
    \/ (AddTile /\ UNCHANGED <<cacheVars, diffVars, dataVars, mergeVars, queryVars>>)
    \/ (ReloadTile /\ UNCHANGED <<cacheVars, diffVars, dataVars, mergeVars, queryVars>>)
    \/ (Tick /\ UNCHANGED <<cacheVars, diffVars, dataVars, mergeVars, queryVars>>)

(***************************************************************************)
(* Tile queries                                                            *)
(***************************************************************************)
NoQuery == [op |-> "none"]
NoResult == [kind |-> "none"]

\* ---- TileData (src/tile/tile_data.ts): rawData and vectorData, each given or not
Undefined == "undefined"
TileData(rawData, vectorData) == [rawData |-> rawData, vectorData |-> vectorData]
\* "this.rawData !== undefined || this.vectorData !== undefined"
hasData(data) == data.rawData # Undefined \/ data.vectorData # Undefined

\* ---- a tile as the queries see it. Tile, OverscaledTileID, Bounds and
\* MercatorCoordinate are not among the sources: a tile answers hasData() from
\* its TileData and holdingForSymbolFade() from its hold; coordinates are
\* integers, a world being WorldUnits wide and a tile EXTENT wide in its own
\* space
WorldUnits == 4
EXTENT == 4
TileID(z, x, y, wrap) == [overscaledZ |-> z, x |-> x, y |-> y, wrap |-> wrap]
\* tileID.key: a number that tells the z, x, y and wrap of resident tiles apart
tileKey(id) == ((id.overscaledZ * 2 + id.wrap) * 2 + id.x) * 2 + id.y
QueryTile(id, holding, data, queryPadding, tileSize) ==
    [tileID |-> id, holding |-> holding, data |-> data, queryPadding |-> queryPadding,
     tileSize |-> tileSize]
NoTile == [tileID |-> Undefined]
unwrapTo(id, wrap) == [id EXCEPT !.wrap = wrap]
Pow2(z) == IF z = 0 THEN 1 ELSE 2
Point(x, y) == [x |-> x, y |-> y]
\* tileID.getTilePoint(coord): the coordinate in the space of the tile as placed
\* in world copy tileID.wrap
getTilePoint(id, coord) ==
    Point((coord.x * Pow2(id.overscaledZ) * EXTENT) \div WorldUnits
              - (id.x + id.wrap * Pow2(id.overscaledZ)) * EXTENT,
          (coord.y * Pow2(id.overscaledZ) * EXTENT) \div WorldUnits - id.y * EXTENT)
MinOf(S) == CHOOSE a \in S : \A b \in S : a <= b
MaxOf(S) == CHOOSE a \in S : \A b \in S : a >= b
\* Bounds.fromPoints, map, expandBy and intersects
fromPoints(pts) ==
    [minX |-> MinOf({pts[i].x : i \in 1..Len(pts)}), maxX |-> MaxOf({pts[i].x : i \in 1..Len(pts)}),
     minY |-> MinOf({pts[i].y : i \in 1..Len(pts)}), maxY |-> MaxOf({pts[i].y : i \in 1..Len(pts)})]
boundsPoints(b) ==
    <<Point(b.minX, b.minY), Point(b.maxX, b.minY), Point(b.maxX, b.maxY), Point(b.minX, b.maxY)>>
expandBy(b, by) ==
    [minX |-> b.minX - by, maxX |-> b.maxX + by, minY |-> b.minY - by, maxY |-> b.maxY + by]
intersects(a, b) ==
    /\ a.minX <= b.maxX /\ a.maxX >= b.minX
    /\ a.minY <= b.maxY /\ a.maxY >= b.minY
EXTENT_BOUNDS == [minX |-> 0, maxX |-> EXTENT, minY |-> 0, maxY |-> EXTENT]
\* the bounds in units d times finer
boundsTimes(b, d) ==
    [minX |-> b.minX * d, maxX |-> b.maxX * d, minY |-> b.minY * d, maxY |-> b.maxY * d]
\* "Math.pow(2, transform.zoom - tile.tileID.overscaledZ)" as a fraction
scaleOf(zoom, overscaledZ) ==
    IF zoom >= overscaledZ THEN [num |-> Pow2(zoom - overscaledZ), den |-> 1]
    ELSE [num |-> 1, den |-> Pow2(overscaledZ - zoom)]

(***************************************************************************)
(* VectorTileStrategy.isTileRenderable and tilesIn                         *)
(***************************************************************************)
\* an answer that does not look at symbolLayer
isTileRenderableNoLayer(tile, symbolLayer) ==
    IF tile = NoTile THEN Undefined
    ELSE IF ~hasData(tile.data) THEN "false"
    ELSE IF ~holdingForSymbolFade(tile) THEN "true" ELSE "false"

\* "tile?.hasData() && (symbolLayer || !tile.holdingForSymbolFade())": the
\* value of the expression; symbolLayer is "true", "false" or not given
isTileRenderable(tile, symbolLayer) ==
    IF tile = NoTile THEN Undefined
    ELSE IF ~hasData(tile.data) THEN "false"
    ELSE IF symbolLayer = "true" THEN "true"
    ELSE IF ~holdingForSymbolFade(tile) THEN "true" ELSE "false"

\* _transformBbox(geom, project, checkWrap), given the projected points and the
\* answer of newBounds.covers(projected): points east of the middle of the
\* world move one world to the west when the bounds do not cover
transformBbox(projected, checkWrap, covers) ==
    IF checkWrap /\ ~covers
    THEN [i \in 1..Len(projected) |->
             IF 2 * projected[i].x > WorldUnits
             THEN Point(projected[i].x - WorldUnits, projected[i].y) ELSE projected[i]]
    ELSE projected

\* the placements tested for a tile
placements(tile, allowWorldCopies) ==
    IF allowWorldCopies THEN <<tile.tileID>>
    ELSE <<unwrapTo(tile.tileID, -1), unwrapTo(tile.tileID, 0)>>

\* the inner loop of tilesIn for one tile: a result record per placement whose
\* padded bounds meet the extent of the tile
RECURSIVE tileResults(_, _, _, _, _, _, _)
tileResults(key, tile, ids, i, q, queryGeometry, cameraQueryGeometry) ==
    IF i > Len(ids) THEN <<>>
    ELSE LET tileID == ids[i]
             cameraBounds == fromPoints(cameraQueryGeometry)
             scale == scaleOf(q.zoom, tile.tileID.overscaledZ)
             \* queryPadding = maxPitchScaleFactor * tile.queryPadding * EXTENT
             \*                    / tile.tileSize / scale, as paddingNum / paddingDen
             paddingNum == q.maxPitchScaleFactor * tile.queryPadding * EXTENT * scale.den
             paddingDen == tile.tileSize * scale.num
             \* the bounds and the extent in units paddingDen times finer, in which
             \* the padding is the whole number paddingNum
             tileSpaceBounds ==
                 expandBy(boundsTimes(fromPoints([j \in 1..4 |->
                                         getTilePoint(tileID, boundsPoints(cameraBounds)[j])]),
                                      paddingDen),
                          paddingNum)
             rest == tileResults(key, tile, ids, i + 1, q, queryGeometry, cameraQueryGeometry)
         IN IF intersects(tileSpaceBounds, boundsTimes(EXTENT_BOUNDS, paddingDen))
            THEN <<[tile |-> key,
                    scale |-> scale,
                    tileID |-> IF q.allowWorldCopies THEN tileID ELSE unwrapTo(tileID, 0),
                    queryGeometry |-> [j \in 1..Len(queryGeometry) |->
                                          getTilePoint(tileID, queryGeometry[j])],
                    cameraQueryGeometry |-> [j \in 1..Len(cameraQueryGeometry) |->
                                                getTilePoint(tileID, cameraQueryGeometry[j])]]>>
                 \o rest
            ELSE rest

\* the loop over the sorted tiles, without the test of the fade hold
RECURSIVE tilesInHeldToo(_, _, _, _, _)
tilesInHeldToo(ts, keys, i, q, geometries) ==
    IF i > Len(keys) THEN <<>>
    ELSE tileResults(keys[i], ts[keys[i]], placements(ts[keys[i]], q.allowWorldCopies), 1,
                     q, geometries.query, geometries.camera)
             \o tilesInHeldToo(ts, keys, i + 1, q, geometries)

\* the loop over the sorted tiles: a tile holding for symbol fade is skipped
RECURSIVE tilesInFrom(_, _, _, _, _)
tilesInFrom(ts, keys, i, q, geometries) ==
    IF i > Len(keys) THEN <<>>
    ELSE (IF holdingForSymbolFade(ts[keys[i]]) THEN <<>>
          ELSE tileResults(keys[i], ts[keys[i]],
                           placements(ts[keys[i]], q.allowWorldCopies), 1,
                           q, geometries.query, geometries.camera))
             \o tilesInFrom(ts, keys, i + 1, q, geometries)

\* tilesIn(tiles, pointQueryGeometry, maxPitchScaleFactor, has3DLayer, transform,
\* terrain): q holds the tiles by key, what the transform answers (whether it
\* is given, its zoom, allowWorldCopies, the projected query and camera
\* polygons, the answers of covers) and maxPitchScaleFactor
tilesIn(q) ==
    IF ~q.transformGiven THEN <<>>
    ELSE tilesInFrom(q.tiles, KeyOrder(DOMAIN q.tiles), 1, q,
                     [query |-> transformBbox(q.projected, ~q.allowWorldCopies, q.covers),
                      camera |-> transformBbox(IF q.has3DLayer THEN q.cameraProjected
                                               ELSE q.projected,
                                               ~q.allowWorldCopies,
                                               IF q.has3DLayer THEN q.cameraCovers
                                               ELSE q.covers)])

\* ---- the render scenario: one tile, present or not, and a layer kind
RenderTiles ==
    {NoTile} \cup {QueryTile(TileID(0, 0, 0, 0), holding, TileData(raw, vector), padding,
                              EXTENT) :
                      holding \in BOOLEAN, raw \in {Undefined, "buffer"},
                      vector \in {Undefined, "tile"}, padding \in {0, 1}}
IsTileRenderable ==
    /\ qin.op = "isTileRenderable"
    /\ qout = NoResult
    /\ qout' = [kind |-> "value", value |-> isTileRenderable(qin.tile, qin.symbolLayer)]
    /\ UNCHANGED qin
RenderNext == IsTileRenderable /\ UNCHANGED <<cacheVars, diffVars, fadeVars, dataVars, mergeVars>>

\* ---- the query scenario: resident tiles of zoom 0 and 1, a query polygon of
\* two corners and what the transform answers
QueryTileIDs ==
    {TileID(0, 0, 0, wrap) : wrap \in {0, 1}}
        \cup {TileID(1, x, y, 0) : x \in {0, 1}, y \in {0, 1}}
\* tiles as large as their extent, with a padding of 0 or 1
QueryTiles(id) ==
    {QueryTile(id, holding, TileData(Undefined, "tile"), padding, EXTENT) :
        holding \in BOOLEAN, padding \in {0, 1}}
ResidentSets ==
    UNION {{ts \in [{tileKey(id) : id \in S} -> UNION {QueryTiles(id) : id \in S}] :
               \A id \in S : ts[tileKey(id)].tileID = id}
              : S \in {T \in SUBSET QueryTileIDs : Cardinality(T) <= NumResident}}
QueryPolygons ==
    UNION {{<<Point(x1, y1), Point(x2, y2)>> : x2 \in x1..WorldUnits, y1 \in {1, 3}, y2 \in {1, 3}}
              : x1 \in 0..WorldUnits}
\* the polygon of the camera under a 3-D layer: the whole world
CameraPolygon == <<Point(0, 1), Point(WorldUnits, 3)>>
TilesIn ==
    /\ qin.op = "tilesIn"
    /\ qout = NoResult
    /\ qout' = [kind |-> "value", value |-> tilesIn(qin)]
    /\ UNCHANGED qin
QueryNext == TilesIn /\ UNCHANGED <<cacheVars, diffVars, fadeVars, dataVars, mergeVars>>

(***************************************************************************)
(* toUpdateable and applySourceDiff on the objects of a working set        *)
(***************************************************************************)
\* toUpdateable(data, promoteId): the Map from resolved id to feature object
\* "result.set(getFeatureId(feature, promoteId)!, feature)" for each feature:
\* whatever the id resolves to is the key, an absent id included
RECURSIVE toUpdateableSets(_, _, _, _)
toUpdateableSets(h, features, promoteId, i) ==
    IF i > Len(features) THEN h
    ELSE LET id == getFeatureId(features[i], promoteId)
         IN IF id = IdTypeError THEN [h EXCEPT !.error = TRUE]
            ELSE LET a == heapAlloc(h, features[i])
                 IN toUpdateableSets([a EXCEPT !.ws = WsSet(a.ws, id, Len(a.fobjs))],
                                     features, promoteId, i + 1)
toUpdateable(data, promoteId) ==
    IF data.type \in {"null", "undefined"} THEN EmptyHeap
    ELSE IF data.type \in {"Feature", "FeatureCollection"}
    THEN toUpdateableSets(EmptyHeap, data.features, promoteId, 1)
    \* a bare geometry has no features to iterate: "data.features is not iterable"
    ELSE [EmptyHeap EXCEPT !.error = TRUE]

\* the features a source may hold for an id: found by their id, with or without
\* a properties object, or found by the promoted property "a"
HeldFeatures(id, promoteId) ==
    IF promoteId = NoPromoteId
    THEN {Feature(id, "g0", NullProps), Feature(id, "g0", [k \in {"a"} |-> "v1"])}
    ELSE {Feature(id, "g0", [k \in {"a"} |-> id])}
HeldCollections(promoteId) ==
    {Data("FeatureCollection", <<>>)}
        \cup {Data("Feature", <<f>>) : f \in HeldFeatures("n1", promoteId)}
        \cup {Data("FeatureCollection", <<f>>) : f \in HeldFeatures("n2", promoteId)}
        \cup {Data("FeatureCollection", <<f, g>>) :
                 f \in HeldFeatures("n1", promoteId), g \in HeldFeatures("n2", promoteId)}

\* features a diff may add: with an id or none, with properties null, empty or
\* carrying the promoted property
AddableFeatures ==
    {Feature(id, "g1", props) :
        id \in Ids \cup {NoId},
        props \in {NullProps, EmptyProps, [k \in {"a"} |-> "n1"]}}
ApplyDiffsOfShape(r, a, u) ==
    [defined : {TRUE}, removeAll : BOOLEAN, remove : [1..r -> Ids],
     add : [1..a -> AddableFeatures], update : [1..u -> FeatureDiffs]]
ApplyDiffs ==
    UNION {ApplyDiffsOfShape(t[1], t[2], t[3]) :
              t \in {x \in (0..MaxFieldLen) \X (0..MaxFieldLen) \X (0..MaxFieldLen) :
                         x[1] + x[2] + x[3] <= MaxPairEntries}}

ApplyInPlace ==
    /\ dpc = "start"
    /\ heap' = applySourceDiffInPlace(heap0, prevDiff, promoteOpt)
    /\ dpc' = "applied"
    /\ UNCHANGED <<ws, prevDiff, nextDiff, merged, promoteOpt, midWs, seqWs, mergedWs,
                   udata, uresult, heap0>>

ApplyInPlaceNext == ApplyInPlace /\ UNCHANGED <<cacheVars, fadeVars, mergeVars, queryVars>>

(***************************************************************************)
(* isUpdateableGeoJSON called on one value                                 *)
(***************************************************************************)
\* identifiers: the numbers 0 and 5 and the string "5", or none (null/undefined)
DataIds == {"num0", "num5", "str5", NoId}
DataProps ==
    {NullProps, EmptyProps} \cup {[k \in {"a"} |-> v] : v \in {"num0", "num5", "str5"}}
DataFeatures == {Feature(id, "g0", props) : id \in DataIds, props \in DataProps}
DataValues ==
    {Data(t, <<>>) : t \in {"null", "undefined", "Point"}}
        \cup {Data("Feature", <<f>>) : f \in DataFeatures}
        \cup UNION {{Data("FeatureCollection", fs) : fs \in [1..n -> DataFeatures]}
                        : n \in 0..MaxFeatures}

CheckUpdateable ==
    /\ uresult = "pending"
    /\ uresult' = isUpdateableGeoJSON(udata, promoteOpt)
    /\ UNCHANGED <<udata, heap0, heap, diffVars>>

DataNext == CheckUpdateable /\ UNCHANGED <<cacheVars, fadeVars, mergeVars, queryVars>>

(***************************************************************************)
(* Specifications: each part runs with the other parts at rest             *)
(***************************************************************************)
\* a new BoundedLRUCache(maxEntries, onRemove?) of part_002
CacheInit ==
    /\ impl = "lru"
    /\ hasHook \in BOOLEAN
    /\ map = <<>>
    /\ maxEntries \in Capacities
    /\ prevMap = <<>>
    /\ prevMax = maxEntries
    /\ lastOp = Op("new", 0, 0, 0, {}, maxEntries)
    /\ hooked = <<>>
    /\ result = RetVoid
    /\ recency = <<>>
    /\ prevRecency = <<>>
    /\ dpc = "idle"
    /\ ws = EmptyWs
    /\ prevDiff = EmptyDiff
    /\ nextDiff = EmptyDiff
    /\ merged = EmptyDiff
    /\ promoteOpt = NoPromoteId
    /\ midWs = EmptyWs
    /\ seqWs = EmptyWs
    /\ mergedWs = EmptyWs
    /\ tiles = NoTiles
    /\ now = 0
    /\ removeIds = <<>>
    /\ prevTiles = NoTiles
    /\ lastRetain = {}
    /\ lastFade = 0
    /\ cycle = "idle"
    /\ udata = NoData
    /\ uresult = "idle"
    /\ heap0 = EmptyHeap
    /\ heap = EmptyHeap
    /\ prevAfter = EmptyDiff
    /\ mergedAgain = EmptyDiff
    /\ qin = NoQuery
    /\ qout = NoResult

\* a new BoundedLRUCache of part_001 (either of its two classes)
OldCacheInit ==
    /\ impl \in {"lru2", "lru3"}
    /\ hasHook \in BOOLEAN
    /\ map = <<>>
    /\ maxEntries \in Capacities
    /\ prevMap = <<>>
    /\ prevMax = maxEntries
    /\ lastOp = Op("new", 0, 0, 0, {}, maxEntries)
    /\ hooked = <<>>
    /\ result = RetVoid
    /\ recency = <<>>
    /\ prevRecency = <<>>
    /\ dpc = "idle"
    /\ ws = EmptyWs
    /\ prevDiff = EmptyDiff
    /\ nextDiff = EmptyDiff
    /\ merged = EmptyDiff
    /\ promoteOpt = NoPromoteId
    /\ midWs = EmptyWs
    /\ seqWs = EmptyWs
    /\ mergedWs = EmptyWs
    /\ tiles = NoTiles
    /\ now = 0
    /\ removeIds = <<>>
    /\ prevTiles = NoTiles
    /\ lastRetain = {}
    /\ lastFade = 0
    /\ cycle = "idle"
    /\ udata = NoData
    /\ uresult = "idle"
    /\ heap0 = EmptyHeap
    /\ heap = EmptyHeap
    /\ prevAfter = EmptyDiff
    /\ mergedAgain = EmptyDiff
    /\ qin = NoQuery
    /\ qout = NoResult

\* a new BoundedLRUTileCache (either of the two classes of part_001)
TileCacheInit ==
    /\ impl \in {"tile", "tile1"}
    /\ hasHook \in BOOLEAN
    /\ map = <<>>
    /\ maxEntries \in Capacities
    /\ prevMap = <<>>
    /\ prevMax = maxEntries
    /\ lastOp = Op("new", 0, 0, 0, {}, maxEntries)
    /\ hooked = <<>>
    /\ result = RetVoid
    /\ recency = <<>>
    /\ prevRecency = <<>>
    /\ dpc = "idle"
    /\ ws = EmptyWs
    /\ prevDiff = EmptyDiff
    /\ nextDiff = EmptyDiff
    /\ merged = EmptyDiff
    /\ promoteOpt = NoPromoteId
    /\ midWs = EmptyWs
    /\ seqWs = EmptyWs
    /\ mergedWs = EmptyWs
    /\ tiles = NoTiles
    /\ now = 0
    /\ removeIds = <<>>
    /\ prevTiles = NoTiles
    /\ lastRetain = {}
    /\ lastFade = 0
    /\ cycle = "idle"
    /\ udata = NoData
    /\ uresult = "idle"
    /\ heap0 = EmptyHeap
    /\ heap = EmptyHeap
    /\ prevAfter = EmptyDiff
    /\ mergedAgain = EmptyDiff
    /\ qin = NoQuery
    /\ qout = NoResult

CacheSpec == CacheInit /\ [][LRUCacheNext]_vars
OldCacheSpec == OldCacheInit /\ [][CacheNext]_vars
TileCacheSpec == TileCacheInit /\ [][CacheNext]_vars

\* a working set and two diffs, given or not, of at most MaxPairEntries entries
DiffInit ==
    /\ impl = "lru"
    /\ hasHook = TRUE
    /\ map = <<>>
    /\ maxEntries = 0
    /\ prevMap = <<>>
    /\ prevMax = 0
    /\ lastOp = Op("new", 0, 0, 0, {}, 0)
    /\ hooked = <<>>
    /\ result = RetVoid
    /\ recency = <<>>
    /\ prevRecency = <<>>
    /\ dpc = "start"
    /\ ws \in WorkingSets
    /\ \E n \in 0..MaxPairEntries, m \in 0..MaxPairEntries :
          /\ n + m <= MaxPairEntries
          /\ prevDiff \in DiffsOfSize(n) \cup (IF n = 0 THEN {UndefinedDiff} ELSE {})
          /\ nextDiff \in DiffsOfSize(m) \cup (IF m = 0 THEN {UndefinedDiff} ELSE {})
    /\ merged = EmptyDiff
    /\ promoteOpt = NoPromoteId
    /\ midWs = EmptyWs
    /\ seqWs = EmptyWs
    /\ mergedWs = EmptyWs
    /\ tiles = NoTiles
    /\ now = 0
    /\ removeIds = <<>>
    /\ prevTiles = NoTiles
    /\ lastRetain = {}
    /\ lastFade = 0
    /\ cycle = "idle"
    /\ udata = NoData
    /\ uresult = "idle"
    /\ heap0 = EmptyHeap
    /\ heap = EmptyHeap
    /\ prevAfter = EmptyDiff
    /\ mergedAgain = EmptyDiff
    /\ qin = NoQuery
    /\ qout = NoResult

DiffSpec == DiffInit /\ [][DiffNext]_vars

\* two diffs, given or not, of at most MaxPairEntries entries, with or without
\* promoteId, and a working set that is empty or holds every id
MergeInit ==
    /\ impl = "lru"
    /\ hasHook = TRUE
    /\ map = <<>>
    /\ maxEntries = 0
    /\ prevMap = <<>>
    /\ prevMax = 0
    /\ lastOp = Op("new", 0, 0, 0, {}, 0)
    /\ hooked = <<>>
    /\ result = RetVoid
    /\ recency = <<>>
    /\ prevRecency = <<>>
    /\ dpc = "unmerged"
    /\ promoteOpt \in {NoPromoteId, "a"}
    /\ ws \in MergeWorkingSets(promoteOpt)
    /\ \E n \in 0..MaxPairEntries, m \in 0..MaxPairEntries :
          /\ n + m <= MaxPairEntries
          /\ prevDiff \in MergeDiffsOfSize(n, promoteOpt, PrevFeatureDiffs)
                            \cup (IF n = 0 THEN {UndefinedDiff} ELSE {})
          /\ nextDiff \in MergeDiffsOfSize(m, promoteOpt, NextFeatureDiffs)
                            \cup (IF m = 0 THEN {UndefinedDiff} ELSE {})
    /\ merged = EmptyDiff
    /\ midWs = EmptyWs
    /\ seqWs = EmptyWs
    /\ mergedWs = EmptyWs
    /\ tiles = NoTiles
    /\ now = 0
    /\ removeIds = <<>>
    /\ prevTiles = NoTiles
    /\ lastRetain = {}
    /\ lastFade = 0
    /\ cycle = "idle"
    /\ udata = NoData
    /\ uresult = "idle"
    /\ heap0 = EmptyHeap
    /\ heap = EmptyHeap
    /\ prevAfter = EmptyDiff
    /\ mergedAgain = EmptyDiff
    /\ qin = NoQuery
    /\ qout = NoResult

MergeSpec == MergeInit /\ [][MergeNext]_vars

\* a tile or none, and the kind of layer asked about
RenderInit ==
    /\ impl = "lru"
    /\ hasHook = TRUE
    /\ map = <<>>
    /\ maxEntries = 0
    /\ prevMap = <<>>
    /\ prevMax = 0
    /\ lastOp = Op("new", 0, 0, 0, {}, 0)
    /\ hooked = <<>>
    /\ result = RetVoid
    /\ recency = <<>>
    /\ prevRecency = <<>>
    /\ dpc = "idle"
    /\ ws = EmptyWs
    /\ prevDiff = EmptyDiff
    /\ nextDiff = EmptyDiff
    /\ merged = EmptyDiff
    /\ promoteOpt = NoPromoteId
    /\ midWs = EmptyWs
    /\ seqWs = EmptyWs
    /\ mergedWs = EmptyWs
    /\ tiles = NoTiles
    /\ now = 0
    /\ removeIds = <<>>
    /\ prevTiles = NoTiles
    /\ lastRetain = {}
    /\ lastFade = 0
    /\ cycle = "idle"
    /\ udata = NoData
    /\ uresult = "idle"
    /\ heap0 = EmptyHeap
    /\ heap = EmptyHeap
    /\ prevAfter = EmptyDiff
    /\ mergedAgain = EmptyDiff
    /\ qin \in [op : {"isTileRenderable"}, tile : RenderTiles,
                 symbolLayer : {"true", "false", Undefined}]
    /\ qout = NoResult

RenderSpec == RenderInit /\ [][RenderNext]_vars

\* resident tiles, a query polygon and the answers of the transform
QueryInit ==
    /\ impl = "lru"
    /\ hasHook = TRUE
    /\ map = <<>>
    /\ maxEntries = 0
    /\ prevMap = <<>>
    /\ prevMax = 0
    /\ lastOp = Op("new", 0, 0, 0, {}, 0)
    /\ hooked = <<>>
    /\ result = RetVoid
    /\ recency = <<>>
    /\ prevRecency = <<>>
    /\ dpc = "idle"
    /\ ws = EmptyWs
    /\ prevDiff = EmptyDiff
    /\ nextDiff = EmptyDiff
    /\ merged = EmptyDiff
    /\ promoteOpt = NoPromoteId
    /\ midWs = EmptyWs
    /\ seqWs = EmptyWs
    /\ mergedWs = EmptyWs
    /\ tiles = NoTiles
    /\ now = 0
    /\ removeIds = <<>>
    /\ prevTiles = NoTiles
    /\ lastRetain = {}
    /\ lastFade = 0
    /\ cycle = "idle"
    /\ udata = NoData
    /\ uresult = "idle"
    /\ heap0 = EmptyHeap
    /\ heap = EmptyHeap
    /\ prevAfter = EmptyDiff
    /\ mergedAgain = EmptyDiff
    /\ qin \in {q \in [op : {"tilesIn"}, tiles : ResidentSets, transformGiven : BOOLEAN,
                         zoom : {0, 1}, allowWorldCopies : BOOLEAN,
                         projected : QueryPolygons, covers : BOOLEAN,
                         has3DLayer : BOOLEAN, cameraProjected : {CameraPolygon},
                         cameraCovers : {TRUE}, maxPitchScaleFactor : {1}] :
                    \* without a transform there is nothing it answers
                    ~q.transformGiven =>
                        (q.zoom = 0 /\ q.allowWorldCopies /\ q.covers /\ ~q.has3DLayer)}
    /\ qout = NoResult

QuerySpec == QueryInit /\ [][QueryNext]_vars

\* no tile resident, before the first update cycle
FadeInit ==
    /\ impl = "lru"
    /\ hasHook = TRUE
    /\ map = <<>>
    /\ maxEntries = 0
    /\ prevMap = <<>>
    /\ prevMax = 0
    /\ lastOp = Op("new", 0, 0, 0, {}, 0)
    /\ hooked = <<>>
    /\ result = RetVoid
    /\ recency = <<>>
    /\ prevRecency = <<>>
    /\ dpc = "idle"
    /\ ws = EmptyWs
    /\ prevDiff = EmptyDiff
    /\ nextDiff = EmptyDiff
    /\ merged = EmptyDiff
    /\ promoteOpt = NoPromoteId
    /\ midWs = EmptyWs
    /\ seqWs = EmptyWs
    /\ mergedWs = EmptyWs
    /\ tiles = NoTiles
    /\ now = 0
    /\ removeIds = <<>>
    /\ prevTiles = NoTiles
    /\ lastRetain = {}
    /\ lastFade = 0
    /\ cycle = "open"
    /\ udata = NoData
    /\ uresult = "idle"
    /\ heap0 = EmptyHeap
    /\ heap = EmptyHeap
    /\ prevAfter = EmptyDiff
    /\ mergedAgain = EmptyDiff
    /\ qin = NoQuery
    /\ qout = NoResult

FadeSpec == FadeInit /\ [][FadeNext]_vars

\* a value and a promoteId option, before the call
DataInit ==
    /\ impl = "lru"
    /\ hasHook = TRUE
    /\ map = <<>>
    /\ maxEntries = 0
    /\ prevMap = <<>>
    /\ prevMax = 0
    /\ lastOp = Op("new", 0, 0, 0, {}, 0)
    /\ hooked = <<>>
    /\ result = RetVoid
    /\ recency = <<>>
    /\ prevRecency = <<>>
    /\ dpc = "idle"
    /\ ws = EmptyWs
    /\ prevDiff = EmptyDiff
    /\ nextDiff = EmptyDiff
    /\ merged = EmptyDiff
    /\ promoteOpt \in {NoPromoteId, "a"}
    /\ midWs = EmptyWs
    /\ seqWs = EmptyWs
    /\ mergedWs = EmptyWs
    /\ tiles = NoTiles
    /\ now = 0
    /\ removeIds = <<>>
    /\ prevTiles = NoTiles
    /\ lastRetain = {}
    /\ lastFade = 0
    /\ cycle = "idle"
    /\ udata \in DataValues
    /\ uresult = "pending"
    /\ heap0 = EmptyHeap
    /\ heap = EmptyHeap
    /\ prevAfter = EmptyDiff
    /\ mergedAgain = EmptyDiff
    /\ qin = NoQuery
    /\ qout = NoResult

DataSpec == DataInit /\ [][DataNext]_vars

\* an updateable value turned into a working set, and a diff to apply to it
ApplyInit ==
    /\ impl = "lru"
    /\ hasHook = TRUE
    /\ map = <<>>
    /\ maxEntries = 0
    /\ prevMap = <<>>
    /\ prevMax = 0
    /\ lastOp = Op("new", 0, 0, 0, {}, 0)
    /\ hooked = <<>>
    /\ result = RetVoid
    /\ recency = <<>>
    /\ prevRecency = <<>>
    /\ dpc = "start"
    /\ ws = EmptyWs
    /\ prevDiff \in ApplyDiffs
    /\ nextDiff = EmptyDiff
    /\ merged = EmptyDiff
    /\ promoteOpt \in {NoPromoteId, "a"}
    /\ midWs = EmptyWs
    /\ seqWs = EmptyWs
    /\ mergedWs = EmptyWs
    /\ tiles = NoTiles
    /\ now = 0
    /\ removeIds = <<>>
    /\ prevTiles = NoTiles
    /\ lastRetain = {}
    /\ lastFade = 0
    /\ cycle = "idle"
    /\ udata \in HeldCollections(promoteOpt)
    /\ uresult = isUpdateableGeoJSON(udata, promoteOpt)
    /\ heap0 = toUpdateable(udata, promoteOpt)
    /\ heap = heap0
    /\ prevAfter = EmptyDiff
    /\ mergedAgain = EmptyDiff
    /\ qin = NoQuery
    /\ qout = NoResult

ApplySpec == ApplyInit /\ [][ApplyInPlaceNext]_vars

(***************************************************************************)
(* Claims about the caches                                                 *)
(***************************************************************************)
Count(s, x) == Cardinality({i \in 1..Len(s) : s[i] = x})
AllTruthy(m) == \A i \in 1..Len(m) : Truthy(m[i].val)
KeysOf(m) == {m[i].key : i \in 1..Len(m)}
HooksOf(m) == [i \in 1..Len(m) |-> HookValue(m[i])]
Returned == result.kind # "hang"
KeySeq(m) == [i \in 1..Len(m) |-> m[i].key]
\* the last operation started from truthy values held in recency order, and
\* left truthy values
TruthyStep == AllTruthy(prevMap) /\ AllTruthy(map) /\ KeySeq(prevMap) = prevRecency
\* from truthy values held in recency order an operation leaves them so
TruthyStepKeepsOrder == (TruthyStep /\ Returned) => KeySeq(map) = recency
\* the held entries in recency order, least recently touched first
ByRecency(m, rec) == [i \in 1..Len(rec) |-> MapGet(m, rec[i])]
\* positions of the entries of the previous map that the last operation took out
\* of the cache: their key is gone, or set replaced their value
Left ==
    {i \in 1..Len(prevMap) :
        \/ ~MapHas(map, prevMap[i].key)
        \/ (lastOp.op = "set" /\ lastOp.key = prevMap[i].key /\ result.kind = "void")}

\* C2: with a capacity >= 1 before and after an operation, a cache that held at
\* most its capacity before the operation holds at most its capacity after it.
C2_CacheBound ==
    (lastOp.op # "new" /\ prevMax >= 1 /\ maxEntries >= 1 /\ Len(prevMap) <= prevMax)
        => (Returned /\ Len(map) <= maxEntries)

\* C2 for stored values that are all truthy (the case of tile payloads)
C2_TruthyCacheBound == TruthyStep => C2_CacheBound

\* C3: the onRemove calls of an operation are exactly the values of the entries
\* that left the cache in it, one call each, and none is made with no value.
C3_HookExactlyOnce ==
    (hasHook /\ lastOp.op # "new" /\ Returned)
        => /\ Len(hooked) = Cardinality(Left)
           /\ \A i \in Left :
                Count(hooked, HookValue(prevMap[i]))
                    = Cardinality({j \in Left : HookValue(prevMap[j]) = HookValue(prevMap[i])})

\* C3 for stored values that are all truthy
C3_TruthyHookExactlyOnce == TruthyStep => C3_HookExactlyOnce

\* C4: set of an absent key on a cache at capacity evicts exactly the least
\* recently touched entry and leaves the others and the new entry.
C4_LRUVictim ==
    (lastOp.op = "set" /\ ~MapHas(prevMap, lastOp.key)
        /\ prevMax >= 1 /\ Len(prevMap) = prevMax)
        => /\ KeysOf(map) = (KeysOf(prevMap) \ {prevRecency[1]}) \cup {lastOp.key}
           /\ Len(map) = Len(prevMap)
           /\ hasHook => hooked = <<HookValue(MapGet(prevMap, prevRecency[1]))>>

\* C4 for stored values that are all truthy
C4_TruthyLRUVictim == TruthyStep => C4_LRUVictim

\* C7: setMaxSize(n), n >= 0, returns having evicted the entries beyond the n
\* most recently used ones, least recently used first, each through onRemove,
\* and nothing when n is at least the size.
C7_SetMaxSizeShrink ==
    (lastOp.op = "setMaxSize" /\ lastOp.n >= 0)
        => LET n == lastOp.n
               size == Len(prevRecency)
               drop == IF n < size THEN size - n ELSE 0
               old == ByRecency(prevMap, prevRecency)
           IN /\ Returned
              /\ maxEntries = lastOp.n
              /\ Len(prevMap) = size
              /\ ByRecency(map, recency) = SubSeq(old, drop + 1, size)
              /\ hasHook => hooked = HooksOf(SubSeq(old, 1, drop))

\* C7 for stored values that are all truthy
C7_TruthyShrink == TruthyStep => C7_SetMaxSizeShrink

\* setMaxSize(n) with n <= 0 has returned, leaving the cache empty, every held
\* entry evicted through onRemove
EmptiedBySetMaxSize ==
    (lastOp.op = "setMaxSize" /\ lastOp.n <= 0)
        => /\ Returned
           /\ map = <<>>
           /\ hasHook => Len(hooked) = Len(prevMap)

\* C8: setMaxSize(n) with n <= 0 returns leaving the cache empty, every held
\* entry evicted through onRemove, and a set that follows leaves the cache empty.
C8_ZeroCapacity ==
    [][/\ EmptiedBySetMaxSize'
       /\ (lastOp.op = "setMaxSize" /\ lastOp.n <= 0 /\ Returned /\ lastOp'.op = "set")
              => map' = <<>>]_vars

\* C9: get of a key that is not held returns undefined, raises nothing and
\* leaves the entries and their order as they were.
C9_LookupMiss ==
    (lastOp.op = "get" /\ ~MapHas(prevMap, lastOp.key))
        => /\ result = RetUndefined
           /\ map = prevMap
           /\ recency = prevRecency
           /\ hooked = <<>>

\* C9 for every cache class except the stand-alone tile cache
C9_LookupMissElsewhere == (impl # "tile1") => C9_LookupMiss

\* C10: set of a held key calls onRemove once, with the old value, stores the
\* new value as the most recently used entry and evicts nothing else.
C10_SetPresent ==
    (lastOp.op = "set" /\ MapHas(prevMap, lastOp.key))
        => /\ hasHook => hooked = <<HookValue(MapGet(prevMap, lastOp.key))>>
           /\ map = Append(MapDelete(prevMap, lastOp.key),
                           Entry(lastOp.key, lastOp.val, lastOp.wrap))
           /\ Len(map) = Len(prevMap)

\* C10 for stored values that are all truthy
C10_TruthySetPresent == TruthyStep => C10_SetPresent

\* the hook calls are the values of the entries at the given positions of the
\* previous map, one call each
HookedOncePer(positions) ==
    /\ Len(hooked) = Cardinality(positions)
    /\ \A i \in positions :
         Count(hooked, HookValue(prevMap[i]))
             = Cardinality({j \in positions : HookValue(prevMap[j]) = HookValue(prevMap[i])})

\* C11: remove of a held key deletes that entry alone, calls onRemove once with
\* its value and leaves the other entries in their order; remove of a key that
\* is not held changes nothing and calls no hook.
C11_Remove ==
    (lastOp.op = "remove")
        => IF MapHas(prevMap, lastOp.key)
           THEN /\ map = MapDelete(prevMap, lastOp.key)
                /\ hasHook => hooked = <<HookValue(MapGet(prevMap, lastOp.key))>>
           ELSE /\ map = prevMap
                /\ hooked = <<>>

\* C11 for stored values that are all truthy
C11_TruthyRemove == TruthyStep => C11_Remove

\* C12: filter removes exactly the entries whose value fails the predicate,
\* calls onRemove once for each of them and leaves the entries that pass in
\* their order.
C12_Filter ==
    (lastOp.op = "filter")
        => /\ map = SelectSeq(prevMap, LAMBDA e : e.val \in lastOp.keep)
           /\ hasHook => HookedOncePer({i \in 1..Len(prevMap) : prevMap[i].val \notin lastOp.keep})

\* C12 for stored values that are all truthy
C12_TruthyFilter == TruthyStep => C12_Filter

\* C13: clear leaves the cache empty and, with a hook configured, calls it once
\* for each value held; clear of an empty cache calls nothing.
C13_Clear ==
    (lastOp.op = "clear")
        => /\ map = <<>>
           /\ hasHook => HookedOncePer(1..Len(prevMap))
           /\ ~hasHook => hooked = <<>>

\* a hit of the tile cache returns the payload held for the canonical tile with
\* the caller's identifier as its tileID, and remove drops the entry held for
\* the canonical tile, whatever world copy it was stored under
SharedAcrossWorldCopies ==
    /\ (lastOp.op = "get" /\ MapHas(prevMap, lastOp.key))
          => /\ result.kind = "value"
             /\ result.val = MapGet(prevMap, lastOp.key).val
             /\ result.wrap = lastOp.wrap
    /\ (lastOp.op = "remove" /\ MapHas(prevMap, lastOp.key))
          => /\ ~MapHas(map, lastOp.key)
             /\ hasHook => hooked = <<HookValue(MapGet(prevMap, lastOp.key))>>

\* C14: a payload stored by set under one world copy of a tile is returned by
\* get and removed by remove under every world copy of the same canonical
\* tile, and a hit returns the payload with the caller's identifier as tileID.
C14_WorldCopySharing ==
    [][/\ SharedAcrossWorldCopies'
       /\ (lastOp.op = "set" /\ result.kind = "void" /\ lastOp'.key = lastOp.key
              /\ lastOp'.op = "get")
             => /\ result'.kind = "value"
                /\ result'.val = lastOp.val
                /\ result'.wrap = lastOp'.wrap
       /\ (lastOp.op = "set" /\ result.kind = "void" /\ lastOp'.key = lastOp.key
              /\ lastOp'.op = "remove")
             => /\ Len(map') = Len(map) - 1
                /\ hasHook => hooked' = <<[undef |-> FALSE, val |-> lastOp.val,
                                           wrap |-> lastOp.wrap]>>]_vars

\* a payload stored under one world copy was returned to a caller of another
\* world copy, carrying the caller's identifier
C14_Witness ==
    /\ lastOp.op = "get"
    /\ MapHas(prevMap, lastOp.key)
    /\ MapGet(prevMap, lastOp.key).wrap # lastOp.wrap
    /\ result.kind = "value"
    /\ result.wrap = lastOp.wrap
    /\ MapGet(map, lastOp.key).wrap = lastOp.wrap

(***************************************************************************)
(* Claims about source diffs                                               *)
(***************************************************************************)
Elems(seq) == {seq[i] : i \in 1..Len(seq)}
AddedIds(d) == {f.id : f \in Elems(d.add)}
KeptIds(d, w) == IF d.removeAll THEN {} ELSE DOMAIN w \ Elems(d.remove)
UpdatedIds(d) == {u.id : u \in Elems(d.update)}
\* the last feature a diff adds under the id
LastAdded(d, id) ==
    d.add[CHOOSE i \in 1..Len(d.add) :
              /\ d.add[i].id = id
              /\ \A j \in (i + 1)..Len(d.add) : d.add[j].id # id]
\* the update entry is the last one of the diff for its id
IsLastUpdate(d, i) == \A j \in (i + 1)..Len(d.update) : d.update[j].id # d.update[i].id

\* C1: applying mergeSourceDiffs(prev, next) to a working set gives the same
\* id-to-feature mapping as applying prev and then next to it.
C1_MergeEquivalence == (dpc = "done") => (mergedWs = seqWs)

\* C1, the part that holds: the two ways agree when next neither adds nor
\* updates an id that prev updates, and no diff names an id twice.
C1_DisjointMergeEquivalence ==
    (/\ dpc = "done"
     /\ UpdatedIds(prevDiff) \cap (AddedIds(nextDiff) \cup UpdatedIds(nextDiff)) = {}
     /\ \A d \in {prevDiff, nextDiff} :
            /\ Cardinality(Elems(d.remove)) = Len(d.remove)
            /\ Cardinality(AddedIds(d)) = Len(d.add)
            /\ Cardinality(UpdatedIds(d)) = Len(d.update))
        => (mergedWs = seqWs)

\* C5: one diff is applied in the order removeAll, remove, add, update: the ids
\* left are those added plus those neither cleared nor removed; an id added
\* carries the feature added, however it was removed; the last update of an id
\* left decides the property it sets, also on a feature the same diff added.
\* So removeAll with add of id 1 and update of id 1 setting k=v leaves, of a
\* non-empty working set, only id 1 with k=v.
C5_ApplyOrder ==
    (dpc # "start" /\ prevDiff.defined /\ promoteOpt = NoPromoteId) =>
        /\ DOMAIN midWs = AddedIds(prevDiff) \cup KeptIds(prevDiff, ws)
        /\ \A id \in DOMAIN midWs \ UpdatedIds(prevDiff) :
               midWs[id] = IF id \in AddedIds(prevDiff) THEN LastAdded(prevDiff, id) ELSE ws[id]
        /\ \A i \in 1..Len(prevDiff.update) :
               LET u == prevDiff.update[i]
                   n == Len(u.addOrUpdateProperties)
               IN (IsLastUpdate(prevDiff, i) /\ u.id \in DOMAIN midWs /\ n > 0) =>
                      /\ u.addOrUpdateProperties[n].key \in DOMAIN midWs[u.id].properties
                      /\ midWs[u.id].properties[u.addOrUpdateProperties[n].key]
                             = u.addOrUpdateProperties[n].value
        /\ (/\ ws # EmptyWs
            /\ prevDiff.removeAll
            /\ Len(prevDiff.add) = 1
            /\ Len(prevDiff.update) = 1
            /\ prevDiff.update[1].id = prevDiff.add[1].id
            /\ prevDiff.update[1].addOrUpdateProperties = <<[key |-> "a", value |-> "v2"]>>)
               => /\ DOMAIN midWs = {prevDiff.add[1].id}
                  /\ "a" \in DOMAIN midWs[prevDiff.add[1].id].properties
                  /\ midWs[prevDiff.add[1].id].properties["a"] = "v2"

\* the diff of the example has been applied to a working set holding another id
C5_Witness ==
    /\ dpc # "start"
    /\ prevDiff.defined
    /\ prevDiff.removeAll
    /\ Len(prevDiff.add) = 1
    /\ Len(prevDiff.update) = 1
    /\ prevDiff.update[1].id = prevDiff.add[1].id
    /\ prevDiff.update[1].addOrUpdateProperties = <<[key |-> "a", value |-> "v2"]>>
    /\ DOMAIN ws \ {prevDiff.add[1].id} # {}
    /\ DOMAIN midWs = {prevDiff.add[1].id}
    /\ midWs[prevDiff.add[1].id].properties["a"] = "v2"

(***************************************************************************)
(* Claims about the fade hold                                              *)
(***************************************************************************)
ReturnedIds(ids) == {ids[i] : i \in 1..Len(ids)}

\* C6: in an update cycle, a resident tile with symbols that is not retained
\* and not yet holding gets its hold armed with the fade duration and is not
\* returned; one already holding is returned exactly if its interval has
\* elapsed, and otherwise stays resident with its hold as it was.
C6_FadeHoldArmAndRelease ==
    (cycle \in {"update", "discarded"}) =>
        \A k \in DOMAIN prevTiles :
            (k \notin lastRetain /\ prevTiles[k].hasSymbolBuckets) =>
                IF ~prevTiles[k].holding
                THEN /\ k \notin ReturnedIds(removeIds)
                     /\ k \in DOMAIN tiles
                     /\ tiles[k].holding
                     /\ tiles[k].holdUntil = now + lastFade
                ELSE /\ k \in ReturnedIds(removeIds) <=> now >= prevTiles[k].holdUntil
                     /\ now < prevTiles[k].holdUntil =>
                            (k \in DOMAIN tiles /\ tiles[k] = prevTiles[k])

\* one cycle that arms the hold of one tile and returns another whose hold,
\* armed in an earlier cycle with a positive duration, has run out
C6_Witness ==
    /\ cycle = "update"
    /\ \E k \in DOMAIN prevTiles :
          /\ k \notin lastRetain
          /\ prevTiles[k].hasSymbolBuckets
          /\ ~prevTiles[k].holding
          /\ tiles[k].holding
          /\ lastFade > 0
    /\ \E k \in DOMAIN prevTiles :
          /\ k \notin lastRetain
          /\ prevTiles[k].hasSymbolBuckets
          /\ prevTiles[k].holding
          /\ prevTiles[k].holdUntil > 0
          /\ now >= prevTiles[k].holdUntil
          /\ k \in ReturnedIds(removeIds)

\* a held tile whose interval has not elapsed was kept
C6_HeldWitness ==
    /\ cycle = "discarded"
    /\ \E k \in DOMAIN prevTiles :
          /\ k \notin lastRetain
          /\ prevTiles[k].hasSymbolBuckets
          /\ prevTiles[k].holding
          /\ now < prevTiles[k].holdUntil
          /\ k \in DOMAIN tiles

(***************************************************************************)
(* Claims about updateable source data                                     *)
(***************************************************************************)
\* the identifier a feature resolves to: its id, or with promoteId the value of
\* that property, none when the feature has no such property
ResolvedId(feature, promoteId) ==
    IF promoteId = NoPromoteId THEN feature.id
    ELSE IF feature.properties = NullProps THEN NoId
    ELSE IF promoteId \in DOMAIN feature.properties THEN feature.properties[promoteId]
    ELSE NoId

\* the values the data model calls updateable
Updateable(data, promoteId) ==
    \/ data.type \in {"null", "undefined"}
    \/ /\ data.type = "Feature"
       /\ ResolvedId(data.features[1], promoteId) # NoId
    \/ /\ data.type = "FeatureCollection"
       /\ \A i \in 1..Len(data.features) : ResolvedId(data.features[i], promoteId) # NoId
       /\ \A i, j \in 1..Len(data.features) :
              i # j => ResolvedId(data.features[i], promoteId)
                           # ResolvedId(data.features[j], promoteId)

\* C15: isUpdateableGeoJSON answers true exactly for an absent value, a feature
\* with a resolved identifier, or a collection whose features all resolve to
\* identifiers that differ pairwise; 0 is an identifier, 5 and "5" differ.
C15_IsUpdateable ==
    (uresult \notin {"idle", "pending"})
        => uresult = IF Updateable(udata, promoteOpt) THEN "true" ELSE "false"

\* C15 for features whose properties are an object, or without promoteId
C15_IsUpdateableWithProperties ==
    (promoteOpt = NoPromoteId
        \/ \A i \in 1..Len(udata.features) : udata.features[i].properties # NullProps)
        => C15_IsUpdateable

(***************************************************************************)
(* Claims about applySourceDiff on the objects of a working set            *)
(***************************************************************************)
\* ids the diff adds: those its add entries resolve to
ResolvedAddedIds(d, promoteId) == {ResolvedId(f, promoteId) : f \in Elems(d.add)} \ {NoId}
\* ids held before that the diff neither clears nor removes
KeptHeldIds(d, h) == IF d.removeAll THEN {} ELSE DOMAIN h.ws \ Elems(d.remove)
\* the update entry sets none of the four fields
SetsNothing(u) ==
    /\ u.newGeometry = NoGeometry
    /\ ~u.removeAllProperties
    /\ u.removeProperties = <<>>
    /\ u.addOrUpdateProperties = <<>>
\* the id is held before and after, and only update entries of the diff name it
OnlyUpdated(d, id, promoteId) ==
    /\ id \in KeptHeldIds(d, heap0)
    /\ id \notin ResolvedAddedIds(d, promoteId)
    /\ id \in UpdatedIds(d)

\* C16: applySourceDiff raises nothing; an add entry that resolves to no id, a
\* remove of an id that is not held and an update of an id that is not held add
\* and remove no feature, and the other entries are applied: the ids held
\* afterwards are those added plus those kept, and the last update of a held id
\* decides its geometry and the property it sets.
C16_SilentSkips ==
    (dpc = "applied") =>
        /\ ~heap.error
        /\ DOMAIN heap.ws = ResolvedAddedIds(prevDiff, promoteOpt) \cup KeptHeldIds(prevDiff, heap0)
        /\ \A i \in 1..Len(prevDiff.update) :
               LET u == prevDiff.update[i]
                   n == Len(u.addOrUpdateProperties)
               IN (IsLastUpdate(prevDiff, i) /\ u.id \in DOMAIN heap.ws) =>
                      LET f == heapFeature(heap, heap.ws[u.id])
                      IN /\ u.newGeometry # NoGeometry => f.geometry = u.newGeometry
                         /\ n > 0 => /\ f.properties # NullProps
                                     /\ u.addOrUpdateProperties[n].key \in DOMAIN f.properties
                                     /\ f.properties[u.addOrUpdateProperties[n].key]
                                            = u.addOrUpdateProperties[n].value

\* C16 without promoteId, or when every added feature has a properties object
C16_SilentSkipsWithProperties ==
    (promoteOpt = NoPromoteId \/ \A f \in Elems(prevDiff.add) : f.properties # NullProps)
        => C16_SilentSkips

\* C17: a held id that the diff names only in update entries setting none of
\* the four fields refers afterwards to the very feature object it referred to
\* before, and that object is as it was.
C17_NoOpKeepsObject ==
    (dpc = "applied") =>
        \A id \in DOMAIN heap0.ws :
            (/\ OnlyUpdated(prevDiff, id, promoteOpt)
             /\ \A u \in Elems(prevDiff.update) : u.id = id => SetsNothing(u))
                => /\ id \in DOMAIN heap.ws
                   /\ heap.ws[id] = heap0.ws[id]
                   /\ heap.fobjs[heap.ws[id]] = heap0.fobjs[heap0.ws[id]]

\* an update that sets nothing was applied beside an add that did take place
C17_Witness ==
    /\ dpc = "applied"
    /\ ~heap.error
    /\ Len(prevDiff.add) = 1
    /\ Len(heap.fobjs) > Len(heap0.fobjs)
    /\ \E id \in DOMAIN heap0.ws :
          /\ OnlyUpdated(prevDiff, id, promoteOpt)
          /\ \A u \in Elems(prevDiff.update) : u.id = id => SetsNothing(u)
          /\ heap.ws[id] = heap0.ws[id]

\* C18: when an update entry changes the geometry or the properties of a held
\* feature, the id refers afterwards to a feature object allocated by the
\* call, and every feature object and properties object that existed before
\* the call is as it was.
C18_CopyOnWrite ==
    (dpc = "applied") =>
        /\ \A r \in 1..Len(heap0.fobjs) : heap.fobjs[r] = heap0.fobjs[r]
        /\ \A r \in 1..Len(heap0.pobjs) : heap.pobjs[r] = heap0.pobjs[r]
        /\ \A id \in DOMAIN heap0.ws :
              (/\ ~heap.error
               /\ OnlyUpdated(prevDiff, id, promoteOpt)
               /\ \E u \in Elems(prevDiff.update) : u.id = id /\ ~SetsNothing(u))
                  => /\ id \in DOMAIN heap.ws
                     /\ heap.ws[id] > Len(heap0.fobjs)

\* an update set a property of a held feature that has a properties object: the
\* id refers to a new object with the new value, the old objects are as before
C18_Witness ==
    /\ dpc = "applied"
    /\ \E id \in DOMAIN heap0.ws :
          /\ OnlyUpdated(prevDiff, id, promoteOpt)
          /\ \E u \in Elems(prevDiff.update) :
                u.id = id /\ u.addOrUpdateProperties = <<[key |-> "a", value |-> "v2"]>>
          /\ heap0.fobjs[heap0.ws[id]].props # NoRef
          /\ heap0.pobjs[heap0.fobjs[heap0.ws[id]].props]["a"] # "v2"
          /\ heap.ws[id] > Len(heap0.fobjs)
          /\ heapFeature(heap, heap.ws[id]).properties["a"] = "v2"
          /\ heapFeature(heap, heap0.ws[id]) = heapFeature(heap0, heap0.ws[id])

(***************************************************************************)
(* Claims about the diff mergeSourceDiffs returns                          *)
(***************************************************************************)
Merged == dpc \in {"merged", "done"}
AddsOf(d, id) == SelectSeq(d.add, LAMBDA f : f.id = id)
UpdatesOf(d, id) == SelectSeq(d.update, LAMBDA u : u.id = id)
\* the ids next removes: all of them under removeAll
MootIds == IF nextDiff.removeAll THEN Ids ELSE Elems(nextDiff.remove)

\* C19: for an id next removes, by name or by removeAll, the merged diff has no
\* add entry and no update entry beyond next's own: each such entry is an
\* entry of next, unmerged, and there are no more of them than next has; an id
\* next removes by name and the merged diff does not add is removed by it.
C19_RemovalMootsPrev ==
    Merged =>
        \A id \in MootIds :
            /\ Elems(AddsOf(merged, id)) \subseteq Elems(nextDiff.add)
            /\ Len(AddsOf(merged, id)) <= Len(AddsOf(nextDiff, id))
            /\ Elems(UpdatesOf(merged, id)) \subseteq Elems(nextDiff.update)
            /\ Len(UpdatesOf(merged, id)) <= Len(UpdatesOf(nextDiff, id))
            /\ (id \in Elems(nextDiff.remove) /\ id \notin AddedIds(merged))
                   => id \in Elems(merged.remove)

\* prev updates an id, next removes it: the merged diff removes the id and has
\* no update
C19_Witness ==
    /\ Merged
    /\ prevDiff.defined
    /\ Len(prevDiff.update) = 1
    /\ prevDiff.update[1].addOrUpdateProperties = <<[key |-> "a", value |-> "v2"]>>
    /\ nextDiff.defined
    /\ nextDiff.remove = <<prevDiff.update[1].id>>
    /\ merged.remove = nextDiff.remove
    /\ merged.update = <<>>

\* C20 as stated: no id the merged diff adds is among the ids it removes.
C20_AddSupersedesRemove ==
    Merged => AddedIds(merged) \cap Elems(merged.remove) = {}

\* C20 for two diffs that are both given: no id the merged diff adds is among
\* the ids it removes.
C20_AddSupersedesRemoveOfTwo ==
    (Merged /\ prevDiff.defined /\ nextDiff.defined) =>
        AddedIds(merged) \cap Elems(merged.remove) = {}

\* prev removes an id, next adds it: the merged diff adds it and does not remove it
C20_Witness ==
    /\ Merged
    /\ prevDiff.defined
    /\ nextDiff.defined
    /\ Len(prevDiff.remove) = 1
    /\ Len(nextDiff.add) = 1
    /\ nextDiff.add[1].id = prevDiff.remove[1]
    /\ merged.add = nextDiff.add
    /\ merged.remove = <<>>

(***************************************************************************)
(* Claims about the removal list of onFinishUpdate                         *)
(***************************************************************************)
AfterFinishUpdate == cycle \in {"update", "discarded"}

\* C21: a resident tile that is not retained and has no symbol buckets is
\* returned for removal in that cycle, holding or not, and onFinishUpdate
\* leaves its hold as it found it.
C21_RemovedWithoutSymbols ==
    AfterFinishUpdate =>
        \A k \in DOMAIN prevTiles :
            (k \notin lastRetain /\ ~prevTiles[k].hasSymbolBuckets) =>
                /\ k \in ReturnedIds(removeIds)
                /\ cycle = "update" => (k \in DOMAIN tiles /\ tiles[k] = prevTiles[k])
                /\ cycle = "discarded" => k \notin DOMAIN tiles

\* a tile that lost its symbol buckets while its hold was running is returned
\* in the cycle, beside one without symbols that never held
C21_Witness ==
    /\ cycle = "update"
    /\ \E k \in DOMAIN prevTiles :
          /\ k \notin lastRetain
          /\ ~prevTiles[k].hasSymbolBuckets
          /\ prevTiles[k].holding
          /\ now < prevTiles[k].holdUntil
          /\ k \in ReturnedIds(removeIds)
    /\ \E k \in DOMAIN prevTiles :
          /\ k \notin lastRetain
          /\ ~prevTiles[k].hasSymbolBuckets
          /\ ~prevTiles[k].holding
          /\ ~tiles[k].holding
          /\ k \in ReturnedIds(removeIds)

\* a retained resident tile comes out of the cycle resident, not holding and
\* not returned
RetainedKeepsNoHold ==
    AfterFinishUpdate =>
        \A k \in DOMAIN prevTiles \cap lastRetain :
            /\ k \notin ReturnedIds(removeIds)
            /\ k \in DOMAIN tiles
            /\ ~holdingForSymbolFade(tiles[k])
\* a held tile is not returned before its interval has elapsed
HeldNotReturnedEarly ==
    AfterFinishUpdate =>
        \A k \in DOMAIN prevTiles :
            (/\ prevTiles[k].hasSymbolBuckets
             /\ prevTiles[k].holding
             /\ now < prevTiles[k].holdUntil) => k \notin ReturnedIds(removeIds)
\* a tile that held, was retained in the last cycle and is not retained in this
\* one: its hold is armed with the whole duration from now, whatever had
\* elapsed of the earlier hold, and it is not returned
RearmedInFull ==
    (cycle = "discarded" /\ cycle' = "update") =>
        \A k \in DOMAIN prevTiles \cap lastRetain :
            (/\ prevTiles[k].holding
             /\ k \in DOMAIN tiles
             /\ tiles[k].hasSymbolBuckets
             /\ k \notin lastRetain') =>
                /\ k \notin ReturnedIds(removeIds')
                /\ holdingForSymbolFade(tiles'[k])
                /\ tiles'[k].holdUntil = now' + lastFade'

\* C22: in a cycle that retains a resident tile its hold is cleared and it is
\* not returned; when it drops out of retain in the next cycle its hold is armed
\* anew with the full duration, and a held tile is not returned before its
\* interval has elapsed.
C22_RetentionCancelsHold ==
    /\ [](RetainedKeepsNoHold /\ HeldNotReturnedEarly)
    /\ [][RearmedInFull]_vars

\* a running hold, armed with a positive duration, was cleared by retention
C22_Witness ==
    /\ cycle = "update"
    /\ \E k \in DOMAIN prevTiles \cap lastRetain :
          /\ prevTiles[k].hasSymbolBuckets
          /\ prevTiles[k].holding
          /\ now < prevTiles[k].holdUntil
          /\ ~tiles[k].holding

\* a tile whose earlier hold was cleared by retention holds again, armed later
C22_RearmedWitness ==
    /\ cycle = "update"
    /\ now > 0
    /\ lastFade > 0
    /\ \E k \in DOMAIN prevTiles :
          /\ k \notin lastRetain
          /\ ~prevTiles[k].holding
          /\ tiles[k].holding
          /\ tiles[k].holdUntil = now + lastFade

\* C28: the list onFinishUpdate returns holds keys of the resident tiles only,
\* each at most once, none of them retained; after the call no retained tile is
\* among the tiles holding for symbol fade.
C28_RemovalListSound ==
    (cycle = "update") =>
        /\ ReturnedIds(removeIds) \subseteq DOMAIN prevTiles
        /\ Cardinality(ReturnedIds(removeIds)) = Len(removeIds)
        /\ ReturnedIds(removeIds) \cap lastRetain = {}
        /\ ReturnedIds(getTilesHoldingForSymbolFade(tiles)) \cap lastRetain = {}

\* a cycle that returns one tile, and retains another that was holding
C28_Witness ==
    /\ cycle = "update"
    /\ Len(removeIds) = 1
    /\ \E k \in DOMAIN prevTiles \cap lastRetain :
          /\ prevTiles[k].holding
          /\ k \notin ReturnedIds(getTilesHoldingForSymbolFade(tiles))

(***************************************************************************)
(* Claims about merging update entries, the arguments of the merge and     *)
(* features found by promoteId                                             *)
(***************************************************************************)
AfterMerge == dpc \in {"merged", "again", "done", "thrown"}
\* the update entry the Map of a diff holds for an id: the last one
LastUpdate(d, id) ==
    d.update[CHOOSE i \in 1..Len(d.update) : d.update[i].id = id /\ IsLastUpdate(d, i)]
\* ids both diffs update
BothUpdate == UpdatedIds(prevDiff) \cap UpdatedIds(nextDiff)

\* C24: for an id both diffs update, the merged diff has exactly one update
\* entry; unless next removes the id, that entry has next's geometry when next
\* has one and prev's otherwise, prev's property pairs followed by next's,
\* prev's removed keys followed by next's, and removeAllProperties exactly if
\* one of the two sets it.
C24_MergedFeatureDiff ==
    (dpc = "merged" /\ prevDiff.defined /\ nextDiff.defined) =>
        \A id \in BothUpdate :
            /\ Len(UpdatesOf(merged, id)) = 1
            /\ id \notin MootIds =>
                   LET p == LastUpdate(prevDiff, id)
                       n == LastUpdate(nextDiff, id)
                       m == UpdatesOf(merged, id)[1]
                   IN /\ m.newGeometry = IF n.newGeometry # NoGeometry
                                          THEN n.newGeometry ELSE p.newGeometry
                      /\ m.addOrUpdateProperties
                             = p.addOrUpdateProperties \o n.addOrUpdateProperties
                      /\ m.removeProperties = p.removeProperties \o n.removeProperties
                      /\ m.removeAllProperties
                             <=> (p.removeAllProperties \/ n.removeAllProperties)

\* prev and next remove a key and set the same property, prev sets a geometry:
\* one merged entry with prev's geometry, prev's key and pair before next's
C24_Witness ==
    /\ dpc = "merged"
    /\ prevDiff.defined
    /\ nextDiff.defined
    /\ Len(prevDiff.update) = 1
    /\ Len(nextDiff.update) = 1
    /\ nextDiff.update[1].id = prevDiff.update[1].id
    /\ prevDiff.update[1].newGeometry # NoGeometry
    /\ nextDiff.update[1].newGeometry = NoGeometry
    /\ prevDiff.update[1].removeProperties = <<"a">>
    /\ nextDiff.update[1].removeProperties = <<"b">>
    /\ prevDiff.update[1].addOrUpdateProperties = <<[key |-> "a", value |-> "v2"]>>
    /\ nextDiff.update[1].addOrUpdateProperties = <<[key |-> "a", value |-> "v3"]>>
    /\ Len(merged.update) = 1
    /\ merged.update[1].newGeometry = prevDiff.update[1].newGeometry
    /\ merged.update[1].removeProperties = <<"a", "b">>
    /\ merged.update[1].addOrUpdateProperties
           = <<[key |-> "a", value |-> "v2"], [key |-> "a", value |-> "v3"]>>

\* C26: after mergeSourceDiffs(prev, next) returned, prev has the content it
\* had before the call, and merging the same prev and next once more gives the
\* diff it gives when no merge was made before.
C26_MergeKeepsInputs ==
    /\ AfterMerge => prevAfter = prevDiff
    /\ dpc \in {"again", "done", "thrown"}
           => mergedAgain = mergeSourceDiffs(prevDiff, nextDiff)

\* C26 where the code keeps it: no id is updated by both diffs with a sequence
\* of prev to push on
C26_MergeKeepsInputsUnshared ==
    (\A id \in BothUpdate :
         \/ id \in MootIds
         \/ /\ LastUpdate(prevDiff, id).addOrUpdateProperties = <<>>
            /\ LastUpdate(prevDiff, id).removeProperties = <<>>
         \/ /\ LastUpdate(nextDiff, id).addOrUpdateProperties = <<>>
            /\ LastUpdate(nextDiff, id).removeProperties = <<>>)
        => C26_MergeKeepsInputs

\* ids a diff that may not be given adds
AddedBy(d) == IF d.defined THEN ResolvedAddedIds(d, promoteOpt) ELSE {}
\* ids next removes, by name or by removeAll
RemovedByNext ==
    IF ~nextDiff.defined THEN {}
    ELSE IF nextDiff.removeAll THEN Ids ELSE Elems(nextDiff.remove)
\* the merged diff adds every id prev or next adds, unless next removes what prev
\* added, and applying it leaves the ids that applying prev, then next leaves
MergeKeepsAdds ==
    /\ AfterMerge =>
           ((AddedBy(prevDiff) \ RemovedByNext) \cup AddedBy(nextDiff))
               \subseteq ResolvedAddedIds(merged, promoteOpt)
    /\ dpc = "done" => DOMAIN mergedWs = DOMAIN seqWs

\* C27: with features found by promoteId and carrying no id, the merged diff
\* has an add entry for every identifier prev or next adds (unless next removes
\* it), and applying it adds the same features as applying prev, then next.
C27_MergeKeepsAddsUnderPromoteId == (promoteOpt # NoPromoteId) => MergeKeepsAdds

\* C27 for features found by their own id
C27_MergeKeepsAddsById == (promoteOpt = NoPromoteId) => MergeKeepsAdds

(***************************************************************************)
(* Claims about isTileRenderable and tilesIn                               *)
(***************************************************************************)
Answered == qout # NoResult
\* the tile has a payload: raw data or vector data
HasLoadedData(tile) == tile.data.rawData # Undefined \/ tile.data.vectorData # Undefined

\* C23: isTileRenderable answers true exactly for a tile that is there, has
\* loaded data and is asked about for a symbol layer or is not in a fade hold.
C23_IsRenderable ==
    Answered =>
        (qout.value = "true"
            <=> /\ qin.tile # NoTile
                /\ HasLoadedData(qin.tile)
                /\ (qin.symbolLayer = "true" \/ ~qin.tile.holding))

\* a tile with data in a fade hold was found renderable for a symbol layer
C23_Witness ==
    /\ Answered
    /\ qin.tile # NoTile
    /\ HasLoadedData(qin.tile)
    /\ qin.tile.holding
    /\ qin.symbolLayer = "true"
    /\ qout.value = "true"

\* a tile with data in a fade hold was found not renderable for another layer
C23_HeldWitness ==
    /\ Answered
    /\ qin.tile # NoTile
    /\ HasLoadedData(qin.tile)
    /\ qin.tile.holding
    /\ qin.symbolLayer = "false"
    /\ qout.value = "false"

\* the keys of the tiles the result records of tilesIn refer to, in order
ResultTiles == [i \in 1..Len(qout.value) |-> qout.value[i].tile]

\* C25: every result record of tilesIn refers to a tile of the resident set
\* passed in, and to none that is in a fade hold.
C25_HeldTilesSkipped ==
    Answered =>
        \A i \in 1..Len(qout.value) :
            /\ ResultTiles[i] \in DOMAIN qin.tiles
            /\ ~qin.tiles[ResultTiles[i]].holding

\* the tile of the whole world is in a fade hold and left out, beside a tile
\* that is returned
C25_Witness ==
    /\ Answered
    /\ qin.transformGiven
    /\ qin.allowWorldCopies
    /\ tileKey(TileID(0, 0, 0, 0)) \in DOMAIN qin.tiles
    /\ qin.tiles[tileKey(TileID(0, 0, 0, 0))].holding
    /\ Len(qout.value) = 1
    /\ ResultTiles[1] # tileKey(TileID(0, 0, 0, 0))

\* C29: tilesIn returns at most one result record per resident tile.
C29_OneResultPerTile ==
    Answered => \A i, j \in 1..Len(qout.value) : ResultTiles[i] = ResultTiles[j] => i = j

\* C29 when world copies are allowed: one placement per tile is tested
C29_OneResultPerTileWithWorldCopies ==
    (Answered /\ qin.allowWorldCopies) => C29_OneResultPerTile

\* without world copies a tile has at most two result records, both with the
\* identifier of world 0
C29_TwoResultsPerTileAtMost ==
    (Answered /\ ~qin.allowWorldCopies) =>
        /\ \A k \in DOMAIN qin.tiles :
               Cardinality({i \in 1..Len(qout.value) : ResultTiles[i] = k}) <= 2
        /\ \A i \in 1..Len(qout.value) : qout.value[i].tileID.wrap = 0

\* what tilesIn does keep: a tile has one result record at most when world
\* copies are allowed, and one per placement tested, so two at most, each with
\* the identifier of world 0, when they are not.
OneResultPerPlacement ==
    C29_OneResultPerTileWithWorldCopies /\ C29_TwoResultsPerTileAtMost

\* a query across the antimeridian, moved west by _transformBbox, meets the
\* tile of the whole world in both placements: two records for the one tile,
\* with different geometry in tile space
TwoResultsForOneTile ==
    /\ Answered
    /\ ~qin.allowWorldCopies
    /\ ~qin.covers
    /\ ~qin.has3DLayer
    /\ qin.projected = <<Point(1, 1), Point(3, 1)>>
    /\ DOMAIN qin.tiles = {tileKey(TileID(0, 0, 0, 0))}
    /\ qin.tiles[tileKey(TileID(0, 0, 0, 0))].queryPadding = 0
    /\ Len(qout.value) = 2
    /\ qout.value[1].tile = qout.value[2].tile
    /\ qout.value[1].tileID = qout.value[2].tileID
    /\ qout.value[1].queryGeometry # qout.value[2].queryGeometry

====
